---- MODULE Spec2Model ----
(***************************************************************************)
(* Mailhop email worker (src/workers/email/src/index.js): the per-message  *)
(* routing handler `email`, its helpers and the alias table it reads.      *)
(*                                                                         *)
(* Strings are sequences of one-character strings so that trim, case       *)
(* folding, indexOf, lastIndexOf and slice are computed the way the        *)
(* JavaScript code computes them.  Indices are JavaScript indices          *)
(* (0-based, -1 for "not found").  The empty sequence stands for both the  *)
(* empty string and an absent (undefined / null) string: every place the   *)
(* code reads such a value treats the two alike (`s || ""`, `x || null`).  *)
(***************************************************************************)
EXTENDS Integers, Sequences, FiniteSets, TLC

\* ---------------------------------------------------------------------------
\* Bounds
\* ---------------------------------------------------------------------------

\* number of inbound messages handled in one behaviour
MaxMessages == 2

\* longest raw string handed to splitAddress on its own
MaxRawLen == 4

\* number of HTTP requests the API worker receives in one behaviour
MaxRequests == 3

\* most words after the command word on a command line of the CLI
MaxArgs == 4

\* listEmailLogs: Number.parseInt(rawLimit || "50", 10) and limit = 50
DefaultLimit == 50

\* listEmailLogs: if (limit > 500) limit = 500
SafetyCap == 500

\* trigger email_logs_cap: ORDER BY id DESC LIMIT 10000
LogCap == 10000

\* ---------------------------------------------------------------------------
\* String primitives used by norm / splitAddress / the handler
\* ---------------------------------------------------------------------------

\* String.prototype.toLowerCase on one character
LowerChar(c) ==
  CASE c = "A" -> "a"
    [] c = "B" -> "b"
    [] c = "C" -> "c"
    [] c = "D" -> "d"
    [] c = "E" -> "e"
    [] c = "I" -> "i"
    [] c = "L" -> "l"
    [] c = "M" -> "m"
    [] c = "O" -> "o"
    [] c = "P" -> "p"
    [] c = "Q" -> "q"
    [] c = "X" -> "x"
    [] c = "Y" -> "y"
    [] c = "Z" -> "z"
    [] OTHER -> c

toLowerCase(s) == [i \in 1..Len(s) |-> LowerChar(s[i])]

IsSpace(c) == c = " "

RECURSIVE trimStart(_)
trimStart(s) ==
  IF s # <<>> /\ IsSpace(Head(s)) THEN trimStart(Tail(s)) ELSE s

RECURSIVE trimEnd(_)
trimEnd(s) ==
  IF s # <<>> /\ IsSpace(s[Len(s)]) THEN trimEnd(SubSeq(s, 1, Len(s) - 1)) ELSE s

\* String.prototype.trim
trim(s) == trimEnd(trimStart(s))

\* String.prototype.indexOf(c): first JavaScript index of c, or -1
indexOf(s, c) ==
  IF \E i \in 1..Len(s) : s[i] = c
  THEN (CHOOSE i \in 1..Len(s) : s[i] = c /\ \A j \in 1..(i - 1) : s[j] # c) - 1
  ELSE -1

\* String.prototype.lastIndexOf(c): last JavaScript index of c, or -1
lastIndexOf(s, c) ==
  IF \E i \in 1..Len(s) : s[i] = c
  THEN (CHOOSE i \in 1..Len(s) : s[i] = c /\ \A j \in (i + 1)..Len(s) : s[j] # c) - 1
  ELSE -1

\* String.prototype.slice(from, to) for 0 <= from <= to <= length
slice(s, from, to) == SubSeq(s, from + 1, to)

\* String.prototype.slice(from) for 0 <= from
sliceFrom(s, from) == SubSeq(s, from + 1, Len(s))

\* ---------------------------------------------------------------------------
\* Utilities of the worker
\* ---------------------------------------------------------------------------

norm_trimonly(s) == trim(s)

\* (s || "").trim().toLowerCase()
norm(s) == toLowerCase(trim(s))

\* fallback domain of getDomain
DefaultDomain == <<"e","x","a","m","p","l","e",".","c","o","m">>

getDomain_raw(envDomain) ==
  IF envDomain # <<>> THEN envDomain ELSE DefaultDomain

getDomain_noblank(envDomain) ==
  IF envDomain # <<>> THEN norm(envDomain) ELSE DefaultDomain

getDomain(envDomain) ==
  LET configured == IF envDomain # <<>> THEN norm(envDomain) ELSE <<>>
  IN  IF configured # <<>> THEN configured ELSE DefaultDomain

splitAddress_first(raw) ==
  LET full == norm(raw)
      at   == indexOf(full, "@")
  IN  IF at < 1
      THEN [local |-> <<>>, domain |-> <<>>, full |-> full]
      ELSE [local |-> slice(full, 0, at), domain |-> sliceFrom(full, at + 1), full |-> full]

splitAddress(raw) ==
  LET full == norm(raw)
      at   == lastIndexOf(full, "@")
  IN  IF at < 1
      THEN [local |-> <<>>, domain |-> <<>>, full |-> full]
      ELSE [local |-> slice(full, 0, at), domain |-> sliceFrom(full, at + 1), full |-> full]

isOurDomain(addr, envDomain) == splitAddress(addr).domain = getDomain(envDomain)

wouldLoop_always(forwardTo, envDomain) == TRUE

wouldLoop_raw(forwardTo, envDomain) ==
  LET at == lastIndexOf(forwardTo, "@")
  IN  at >= 1 /\ sliceFrom(forwardTo, at + 1) = getDomain(envDomain)

wouldLoop(forwardTo, envDomain) == isOurDomain(forwardTo, envDomain)

\* ---------------------------------------------------------------------------
\* Inputs: configuration, alias table contents, inbound recipients
\* ---------------------------------------------------------------------------

AtDIo == <<"@","d",".","i","o">>
AtOIo == <<"@","o",".","i","o">>

\* values of env.DOMAIN: lower case, upper case with padding, unset
EnvDomains == { <<"d",".","i","o">>, <<" ","D",".","I","O">>, <<>> }

\* forward_to values: two outside destinations, two inside the worker domain
DestZ     == <<"z">> \o AtOIo
DestY     == <<"y">> \o AtOIo
DestOwn   == <<"q">> \o AtDIo
DestOwnUp == <<" ","Q","@","D",".","I","O">>

AddrA   == <<"a">> \o AtDIo
AddrAUp == <<"A">> \o AtDIo
AddrAB  == <<"a","+","b">> \o AtDIo

\* rows of table aliases (address, forward_to, allow_plus); notes, id and
\* created_at are not read by the worker
BaseRows ==
  { [address |-> a, forward_to |-> f, allow_plus |-> p] :
      a \in {AddrA, AddrAUp}, f \in {DestZ, DestOwn, DestOwnUp}, p \in {0, 1} }

TagRows ==
  { [address |-> AddrAB, forward_to |-> f, allow_plus |-> p] :
      f \in {DestY, DestOwn}, p \in {0, 1} }

\* table contents: address is UNIQUE under COLLATE NOCASE, so at most one
\* row per address up to letter case
AliasTables ==
  { b \cup t : b \in {{}} \cup {{r} : r \in BaseRows},
               t \in {{}} \cup {{r} : r \in TagRows} }

\* values of message.to
Recipients ==
  { AddrA,
    <<" ","A","@","D",".","I","O"," ">>,
    AddrAB,
    <<"a","+","b","+","c">> \o AtDIo,
    <<"a","+">> \o AtDIo,
    <<"+","b">> \o AtDIo,
    <<"y">> \o AtDIo,
    <<"a">> \o AtOIo,
    <<"a">>,
    AtDIo,
    <<"a","@","o","@","d",".","i","o">> }

\* ---------------------------------------------------------------------------
\* D1: SELECT address, forward_to, allow_plus FROM aliases
\*     WHERE address = ? LIMIT 1   (.first(): a row or null)
\* The result is the empty set (null) or a singleton {row}.
\* ---------------------------------------------------------------------------

first_nowhere(table, key) ==
  IF table = {} THEN {} ELSE {CHOOSE r \in table : TRUE}

\* column address is COLLATE NOCASE: = compares with letter case folded
first(table, key) ==
  LET hits == {r \in table : toLowerCase(r.address) = toLowerCase(key)}
  IN  IF hits = {} THEN {} ELSE {CHOOSE r \in hits : TRUE}

Row(r) == CHOOSE x \in r : TRUE

\* ---------------------------------------------------------------------------
\* Log entries and reject arguments
\* ---------------------------------------------------------------------------

NoEntry == [route |-> "", base |-> <<>>, dest |-> <<>>, result |-> "", error |-> ""]

Entry_nobase(route, b, dest, result, error) ==
  [route |-> route, base |-> <<>>, dest |-> dest, result |-> result, error |-> error]

\* { ...msgMeta, route, base, dest, result, error }
Entry(route, b, dest, result, error) ==
  [route |-> route, base |-> b, dest |-> dest, result |-> result, error |-> error]

LoopError == "routing loop detected (forward_to is in our own domain)"
DomainError == "recipient domain does not match worker domain"
NoneError == "no matching alias or plus-base alias found"

\* the argument of message.setReject: "<code> <text>[ <domain>]"
Reject(code, text, at) == [code |-> code, text |-> text, at |-> at]

\* ---------------------------------------------------------------------------
\* State
\* ---------------------------------------------------------------------------

VARIABLES
  aliases,    \* table aliases of env.DB
  envDOMAIN,  \* env.DOMAIN
  nMsgs,      \* messages received so far
  msgTo,      \* message.to of the message being handled
  pc,         \* position of the handler: the external call it is about to make
  blk,        \* the log-and-respond block the handler is in
  rcpt,       \* const rcpt
  domain,     \* const domain
  exact,      \* const exact   ({} is null)
  baseRow,    \* const baseRow ({} is null)
  base,       \* const base
  entry,      \* const entry of the current block
  lookups,    \* keys of the alias SELECTs issued for this message
  forwards,   \* message.forward calls: [dest, ok]
  events,     \* console.log calls of logEvent: [entry, ok]
  writes,     \* INSERTs into email_logs attempted by persistLog: [entry, ok]
  rejects,    \* message.setReject calls: [arg, ok]
  caught,     \* exceptions raised: [src, handler]
  again,      \* splitAddress applied to rcpt.full (normalizing a second time)
  parked,     \* the invocation of email() that is suspended at an await
  apiKey,     \* env.MAILHOP_API_KEY of the API worker
  reqs,       \* the invocations of fetch(): [req, at, pc, stmt, resp, threw]
  nextId,     \* AUTOINCREMENT of aliases.id
  nReqs,      \* requests received so far; also the reading of the clock
  email_logs, \* table email_logs of env.DB: rows [id, ts]
  logSeq,     \* AUTOINCREMENT of email_logs.id: the greatest id ever given
  argv,       \* process.argv of the CLI after the command word
  cli         \* position of main() of the CLI

locals  == <<rcpt, domain, exact, baseRow, base>>
history == <<lookups, forwards, events, writes, rejects>>
config  == <<aliases, envDOMAIN>>
pure    == <<again>>
api     == <<apiKey, reqs, nextId, nReqs>>
store   == <<email_logs, logSeq>>
shell   == <<argv, cli>>
apart   == <<parked, api, store, shell>>
mail    == <<envDOMAIN, nMsgs, msgTo, pc, blk, rcpt, domain, exact, baseRow, base,
             entry, lookups, forwards, events, writes, rejects, caught, again,
             parked, email_logs, logSeq, argv, cli>>
vars    == <<aliases, envDOMAIN, nMsgs, msgTo, pc, blk, rcpt, domain, exact,
             baseRow, base, entry, lookups, forwards, events, writes, rejects,
             caught, again, parked, apiKey, reqs, nextId, nReqs, email_logs,
             logSeq, argv, cli>>

NoRcpt == [local |-> <<>>, domain |-> <<>>, full |-> <<>>]

\* the local state of an invocation of email() that has not started
NoFrame ==
  [msgTo |-> <<>>, pc |-> "idle", blk |-> "", rcpt |-> NoRcpt, domain |-> <<>>,
   exact |-> {}, baseRow |-> {}, base |-> <<>>, entry |-> NoEntry,
   lookups |-> <<>>, forwards |-> <<>>, events |-> <<>>, writes |-> <<>>,
   rejects |-> <<>>, caught |-> <<>>]

\* no request has reached the API worker
ApiIdle ==
  /\ apiKey = <<>>
  /\ reqs = <<>>
  /\ nextId = 1
  /\ nReqs = 0

\* email_logs is empty and the CLI was not started
Quiet ==
  /\ email_logs = {}
  /\ logSeq = 0
  /\ argv = <<>>
  /\ cli = "off"

Init ==
  /\ aliases \in AliasTables
  /\ envDOMAIN \in EnvDomains
  /\ nMsgs = 0
  /\ msgTo = <<>>
  /\ pc = "idle"
  /\ blk = ""
  /\ rcpt = NoRcpt
  /\ domain = <<>>
  /\ exact = {}
  /\ baseRow = {}
  /\ base = <<>>
  /\ entry = NoEntry
  /\ lookups = <<>>
  /\ forwards = <<>>
  /\ events = <<>>
  /\ writes = <<>>
  /\ rejects = <<>>
  /\ caught = <<>>
  /\ again = NoRcpt
  /\ parked = NoFrame
  /\ ApiIdle
  /\ Quiet

\* ---------------------------------------------------------------------------
\* Control structure of email(): try / catch nesting and the blocks
\* ---------------------------------------------------------------------------

\* the catch clause that receives an exception raised by the call at
\* position p while the handler is in block b; "propagate" = no enclosing try
Handler(p, b) ==
  CASE p = "meta"                          -> "propagate"
    [] p \in {"lookupExact", "lookupBase"} -> "outer"
    [] p = "forwardExact"                  -> "exact-catch"
    [] p = "forwardBase"                   -> "base-catch"
    [] OTHER ->
         CASE b = "exact-ok" -> "exact-catch"
           [] b = "base-ok"  -> "base-catch"
           [] b = "outer"    -> "propagate"
           [] OTHER          -> "outer"

CatchEntry_nodest(h, err) ==
  CASE h = "exact-catch" -> Entry("exact", <<>>, <<>>, "error", err)
    [] h = "base-catch"  -> Entry("base+tag", base, <<>>, "error", err)
    [] OTHER             -> Entry("exception", <<>>, <<>>, "error", err)

\* the entry built by a catch clause from String(err)
CatchEntry(h, err) ==
  CASE h = "exact-catch" -> Entry("exact", <<>>, Row(exact).forward_to, "error", err)
    [] h = "base-catch"  -> Entry("base+tag", base, Row(baseRow).forward_to, "error", err)
    [] OTHER             -> Entry("exception", <<>>, <<>>, "error", err)

rejectOf_generic(b, dom) == Reject(550, "Internal error", <<>>)

\* the argument of setReject in block b
rejectOf(b, dom) ==
  CASE b = "invalid"                        -> Reject(550, "Invalid recipient for this domain", <<>>)
    [] b \in {"exact-loop", "base-loop"}    -> Reject(550, "Routing loop detected", <<>>)
    [] b \in {"exact-catch", "base-catch"}  -> Reject(550, "Destination not verified", <<>>)
    [] b = "none"                           -> Reject(550, "No such user at", dom)
    [] OTHER                                -> Reject(550, "Internal error", <<>>)

ForwardedBlocks_none == {}

\* blocks that end without setReject (the message was forwarded)
ForwardedBlocks == {"exact-ok", "base-ok"}

Enter(b, e) ==
  /\ pc' = "logEvent"
  /\ blk' = b
  /\ entry' = e
  /\ UNCHANGED caught

Step(p) ==
  /\ pc' = p
  /\ UNCHANGED <<blk, entry, caught>>

Throw(err) ==
  LET h == Handler(pc, blk)
  IN  /\ caught' = Append(caught, [src |-> pc, handler |-> h])
      /\ IF h = "propagate"
         THEN pc' = "threw" /\ UNCHANGED <<blk, entry>>
         ELSE pc' = "logEvent" /\ blk' = h /\ entry' = CatchEntry(h, err)

\* ---------------------------------------------------------------------------
\* Decisions of the handler
\* ---------------------------------------------------------------------------

notOurs_localonly(r, dom) == r.local = <<>>

\* if (!rcpt.local || rcpt.domain !== domain)
notOurs(r, dom) == r.local = <<>> \/ r.domain # dom

found_unlessloop(row) ==
  row # {} /\ ~wouldLoop((CHOOSE x \in row : TRUE).forward_to, envDOMAIN)

found_ifplus(row) ==
  row # {} /\ (CHOOSE x \in row : TRUE).allow_plus = 1

found_never(row) == FALSE

\* if (exact)
found(row) == row # {}

plusIdx_last(local) == lastIndexOf(local, "+")

\* const plusIdx = rcpt.local.indexOf("+")
plusIdx(local) == indexOf(local, "+")

baseOf_keepplus(r, idx) == slice(r.local, 0, idx + 1) \o <<"@">> \o r.domain

\* const baseLocal = rcpt.local.slice(0, plusIdx); const base = `${baseLocal}@${rcpt.domain}`
baseOf(r, idx) == slice(r.local, 0, idx) \o <<"@">> \o r.domain

allowPlus_any(row) == row # {}

\* if (baseRow && Number(baseRow.allow_plus) === 1)
allowPlus(row) == row # {} /\ Row(row).allow_plus = 1

nextInBlock_nopersist(p, b) ==
  IF p = "setReject" \/ b \in ForwardedBlocks THEN "done" ELSE "setReject"

\* the statements of a block: logEvent(entry); await persistLog(env, entry);
\* then await message.setReject(...), except after a successful forward
nextInBlock(p, b) ==
  CASE p = "logEvent"   -> "persistLog"
    [] p = "persistLog" -> IF b \in ForwardedBlocks THEN "done" ELSE "setReject"
    [] OTHER            -> "done"

persistLogThrows_nocatch(ok) == ~ok

\* persistLog: try { INSERT } catch { } -- a failed INSERT is not rethrown
persistLogThrows(ok) == FALSE

\* the entry email() hands to the logger first when its lookups return, as a
\* function of the recipient, the configuration, the table and the result
\* of the forward it attempts
decide(to, envDomain, table, forwardOk) ==
  LET r   == splitAddress(to)
      dom == getDomain(envDomain)
      ex  == first(table, r.full)
      idx == plusIdx(r.local)
      b   == baseOf(r, idx)
      br  == first(table, b)
  IN  IF notOurs(r, dom)
      THEN Entry("invalid-domain", <<>>, <<>>, "rejected", DomainError)
      ELSE IF found(ex)
      THEN IF wouldLoop(Row(ex).forward_to, envDomain)
           THEN Entry("exact", <<>>, Row(ex).forward_to, "rejected", LoopError)
           ELSE IF forwardOk
                THEN Entry("exact", <<>>, Row(ex).forward_to, "forwarded", "")
                ELSE Entry("exact", <<>>, Row(ex).forward_to, "error",
                           "Error: destination address not verified")
      ELSE IF idx > -1 /\ allowPlus(br)
      THEN IF wouldLoop(Row(br).forward_to, envDomain)
           THEN Entry("base+tag", b, Row(br).forward_to, "rejected", LoopError)
           ELSE IF forwardOk
                THEN Entry("base+tag", b, Row(br).forward_to, "forwarded", "")
                ELSE Entry("base+tag", b, Row(br).forward_to, "error",
                           "Error: destination address not verified")
      ELSE Entry("none", <<>>, <<>>, "rejected", NoneError)

\* ---------------------------------------------------------------------------
\* Actions: one per external call of email(), with the branching that
\* follows the call up to the next external call
\* ---------------------------------------------------------------------------

\* the mail transport invokes email(message, env)
Receive(to) ==
  /\ pc \in {"idle", "done", "threw"}
  /\ nMsgs < MaxMessages
  /\ nMsgs' = nMsgs + 1
  /\ msgTo' = to
  /\ pc' = "meta"
  /\ blk' = ""
  /\ rcpt' = NoRcpt
  /\ domain' = <<>>
  /\ exact' = {}
  /\ baseRow' = {}
  /\ base' = <<>>
  /\ entry' = NoEntry
  /\ lookups' = <<>>
  /\ forwards' = <<>>
  /\ events' = <<>>
  /\ writes' = <<>>
  /\ rejects' = <<>>
  /\ caught' = <<>>
  /\ UNCHANGED <<config, pure, apart>>

\* rcpt, domain, msgMeta (message.headers.get), before the try
ReadMeta(ok) ==
  /\ pc = "meta"
  /\ IF ok
     THEN /\ rcpt' = splitAddress(msgTo)
          /\ domain' = getDomain(envDOMAIN)
          /\ Step("check")
     ELSE /\ Throw("Error: headers")
          /\ UNCHANGED <<rcpt, domain>>
  /\ UNCHANGED <<config, pure, apart, nMsgs, msgTo, exact, baseRow, base, history>>

\* 0) sanity check: only accept mail for our configured domain
CheckDomain ==
  /\ pc = "check"
  /\ IF notOurs(rcpt, domain)
     THEN Enter("invalid", Entry("invalid-domain", <<>>, <<>>, "rejected", DomainError))
     ELSE Step("lookupExact")
  /\ UNCHANGED <<config, pure, apart, nMsgs, msgTo, locals, history>>

\* 1) exact match: SELECT ... WHERE address = rcpt.full
LookupExact(ok) ==
  /\ pc = "lookupExact"
  /\ lookups' = Append(lookups, rcpt.full)
  /\ IF ~ok
     THEN /\ Throw("Error: D1")
          /\ UNCHANGED <<exact, base>>
     ELSE LET row == first(aliases, rcpt.full)
              idx == plusIdx(rcpt.local)
          IN  /\ exact' = row
              /\ IF found(row)
                 THEN /\ IF wouldLoop(Row(row).forward_to, envDOMAIN)
                         THEN Enter("exact-loop",
                                Entry("exact", <<>>, Row(row).forward_to, "rejected", LoopError))
                         ELSE Step("forwardExact")
                      /\ UNCHANGED base
                 ELSE IF idx > -1
                      THEN /\ base' = baseOf(rcpt, idx)
                           /\ Step("lookupBase")
                      ELSE /\ Enter("none", Entry("none", <<>>, <<>>, "rejected", NoneError))
                           /\ UNCHANGED base
  /\ UNCHANGED <<config, pure, apart, nMsgs, msgTo, rcpt, domain, baseRow,
                 forwards, events, writes, rejects>>

\* await message.forward(exact.forward_to)
ForwardExact(ok) ==
  /\ pc = "forwardExact"
  /\ forwards' = Append(forwards, [dest |-> Row(exact).forward_to, ok |-> ok])
  /\ IF ok
     THEN Enter("exact-ok", Entry("exact", <<>>, Row(exact).forward_to, "forwarded", ""))
     ELSE Throw("Error: destination address not verified")
  /\ UNCHANGED <<config, pure, apart, nMsgs, msgTo, locals, lookups, events, writes, rejects>>

\* 2) plus addressing: SELECT ... WHERE address = base
LookupBase(ok) ==
  /\ pc = "lookupBase"
  /\ lookups' = Append(lookups, base)
  /\ IF ~ok
     THEN /\ Throw("Error: D1")
          /\ UNCHANGED baseRow
     ELSE LET row == first(aliases, base)
          IN  /\ baseRow' = row
              /\ IF allowPlus(row)
                 THEN IF wouldLoop(Row(row).forward_to, envDOMAIN)
                      THEN Enter("base-loop",
                             Entry("base+tag", base, Row(row).forward_to, "rejected", LoopError))
                      ELSE Step("forwardBase")
                 ELSE Enter("none", Entry("none", <<>>, <<>>, "rejected", NoneError))
  /\ UNCHANGED <<config, pure, apart, nMsgs, msgTo, rcpt, domain, exact, base,
                 forwards, events, writes, rejects>>

\* await message.forward(baseRow.forward_to)
ForwardBase(ok) ==
  /\ pc = "forwardBase"
  /\ forwards' = Append(forwards, [dest |-> Row(baseRow).forward_to, ok |-> ok])
  /\ IF ok
     THEN Enter("base-ok", Entry("base+tag", base, Row(baseRow).forward_to, "forwarded", ""))
     ELSE Throw("Error: destination address not verified")
  /\ UNCHANGED <<config, pure, apart, nMsgs, msgTo, locals, lookups, events, writes, rejects>>

\* logEvent(entry): console.log(JSON.stringify(...)), no try around it
LogEvent(ok) ==
  /\ pc = "logEvent"
  /\ events' = Append(events, [entry |-> entry, ok |-> ok])
  /\ IF ok THEN Step(nextInBlock(pc, blk)) ELSE Throw("Error: console")
  /\ UNCHANGED <<config, pure, apart, nMsgs, msgTo, locals, lookups, forwards, writes, rejects>>

\* await persistLog(env, entry), as the handler sees it
persistLogCall(ok) ==
  /\ pc = "persistLog"
  /\ writes' = Append(writes, [entry |-> entry, ok |-> ok])
  /\ IF persistLogThrows(ok)
     THEN Throw("Error: D1")
     ELSE Step(nextInBlock(pc, blk))
  /\ UNCHANGED <<config, pure, parked, api, shell, nMsgs, msgTo, locals, lookups,
                 forwards, events, rejects>>

\* await persistLog(env, entry) where the rows of email_logs are not followed:
\* the INSERT and its outcome are kept in writes
PersistLog(ok) ==
  /\ persistLogCall(ok)
  /\ UNCHANGED store

RECURSIVE inIdOrder(_, _, _)
\* the rows of S, whose ids lie in lo..hi, by ascending id
inIdOrder(S, lo, hi) ==
  IF S = {} THEN <<>>
  ELSE IF lo = hi THEN <<CHOOSE x \in S : TRUE>>
  ELSE LET mid == (lo + hi) \div 2
       IN  inIdOrder({x \in S : x.id <= mid}, lo, mid) \o
           inIdOrder({x \in S : x.id > mid}, mid + 1, hi)

email_logs_cap_off(table, top) == table

\* trigger email_logs_cap: DELETE FROM email_logs WHERE id NOT IN
\* (SELECT id FROM email_logs ORDER BY id DESC LIMIT 10000)
email_logs_cap(table, top) ==
  LET all  == inIdOrder(table, 1, top)
      from == IF Len(all) > LogCap THEN Len(all) - LogCap + 1 ELSE 1
      kept == {all[k].id : k \in from..Len(all)}
  IN  {x \in table : x.id \in kept}

\* await persistLog(env, entry) with the table: the INSERT gives the row the
\* next id and the reading of the clock, then the trigger runs
InsertLog(ok) ==
  /\ persistLogCall(ok)
  /\ IF ok
     THEN /\ logSeq' = logSeq + 1
          /\ email_logs' =
               email_logs_cap(email_logs \cup {[id |-> logSeq + 1, ts |-> LogCap + nMsgs]},
                              logSeq + 1)
     ELSE UNCHANGED store

\* await message.setReject("550 ...")
SetReject(ok) ==
  /\ pc = "setReject"
  /\ rejects' = Append(rejects, [arg |-> rejectOf(blk, domain), ok |-> ok])
  /\ IF ok THEN Step(nextInBlock(pc, blk)) ELSE Throw("Error: setReject")
  /\ UNCHANGED <<config, pure, apart, nMsgs, msgTo, locals, lookups, forwards, events, writes>>

Next ==
  \/ \E to \in Recipients : Receive(to)
  \/ \E ok \in BOOLEAN : ReadMeta(ok)
  \/ CheckDomain
  \/ \E ok \in BOOLEAN : LookupExact(ok)
  \/ \E ok \in BOOLEAN : ForwardExact(ok)
  \/ \E ok \in BOOLEAN : LookupBase(ok)
  \/ \E ok \in BOOLEAN : ForwardBase(ok)
  \/ \E ok \in BOOLEAN : LogEvent(ok)
  \/ \E ok \in BOOLEAN : PersistLog(ok)
  \/ \E ok \in BOOLEAN : SetReject(ok)

Spec == Init /\ [][Next]_vars

\* the steps of a running handler: every awaited call returns or throws
HandlerStep ==
  \/ \E ok \in BOOLEAN : ReadMeta(ok)
  \/ CheckDomain
  \/ \E ok \in BOOLEAN : LookupExact(ok)
  \/ \E ok \in BOOLEAN : ForwardExact(ok)
  \/ \E ok \in BOOLEAN : LookupBase(ok)
  \/ \E ok \in BOOLEAN : ForwardBase(ok)
  \/ \E ok \in BOOLEAN : LogEvent(ok)
  \/ \E ok \in BOOLEAN : PersistLog(ok)
  \/ \E ok \in BOOLEAN : SetReject(ok)

\* a handler that was invoked keeps running: no external call blocks forever
FairSpec == Spec /\ WF_vars(HandlerStep)

\* ---------------------------------------------------------------------------
\* Two invocations of email() in one isolate: each has its own message and
\* its own consts (rcpt, domain, exact, baseRow, base, entry); the module
\* holds no variable besides the constant DEFAULT_DOMAIN.  One invocation
\* runs, the other is suspended; control changes hands between two calls.
\* ---------------------------------------------------------------------------

\* tables and recipients of the concurrent runs
ConcTables ==
  { {},
    {[address |-> AddrA, forward_to |-> DestZ, allow_plus |-> 1]},
    {[address |-> AddrAUp, forward_to |-> DestZ, allow_plus |-> 0],
     [address |-> AddrAB, forward_to |-> DestOwn, allow_plus |-> 1]} }

ConcRecipients ==
  { <<" ","A","@","D",".","I","O"," ">>, AddrAB, <<"a","+","c">> \o AtDIo,
    <<"a">> \o AtOIo }

InitConc ==
  /\ Init
  /\ aliases \in ConcTables
  /\ envDOMAIN = <<"d",".","i","o">>

\* the message and the consts of the running invocation
frame ==
  [msgTo |-> msgTo, pc |-> pc, blk |-> blk, rcpt |-> rcpt, domain |-> domain,
   exact |-> exact, baseRow |-> baseRow, base |-> base, entry |-> entry,
   lookups |-> lookups, forwards |-> forwards, events |-> events,
   writes |-> writes, rejects |-> rejects, caught |-> caught]

Resume_sharedrcpt(f) ==
  /\ msgTo' = f.msgTo
  /\ pc' = f.pc
  /\ blk' = f.blk
  /\ rcpt' = (IF f.pc \in {"idle", "meta"} THEN f.rcpt ELSE rcpt)
  /\ domain' = f.domain
  /\ exact' = f.exact
  /\ baseRow' = f.baseRow
  /\ base' = f.base
  /\ entry' = f.entry
  /\ lookups' = f.lookups
  /\ forwards' = f.forwards
  /\ events' = f.events
  /\ writes' = f.writes
  /\ rejects' = f.rejects
  /\ caught' = f.caught

\* the suspended invocation continues with the consts of its own closure
Resume(f) ==
  /\ msgTo' = f.msgTo
  /\ pc' = f.pc
  /\ blk' = f.blk
  /\ rcpt' = f.rcpt
  /\ domain' = f.domain
  /\ exact' = f.exact
  /\ baseRow' = f.baseRow
  /\ base' = f.base
  /\ entry' = f.entry
  /\ lookups' = f.lookups
  /\ forwards' = f.forwards
  /\ events' = f.events
  /\ writes' = f.writes
  /\ rejects' = f.rejects
  /\ caught' = f.caught

\* the running invocation is suspended (or has ended) and the other one runs
Switch ==
  /\ pc # "idle"
  /\ parked' = frame
  /\ Resume(parked)
  /\ UNCHANGED <<config, pure, api, store, shell, nMsgs>>

NextConc ==
  \/ \E to \in ConcRecipients : Receive(to)
  \/ HandlerStep
  \/ Switch

SpecConc == InitConc /\ [][NextConc]_vars

\* ---------------------------------------------------------------------------
\* The email worker under every kind of setting of env.DOMAIN
\* ---------------------------------------------------------------------------

\* values of env.DOMAIN: unset, blank, lower case, upper case with padding
DomainSettings == { <<>>, <<" ">>, <<"d",".","i","o">>, <<" ","D",".","I","O"," ">> }

DomainTables ==
  { {[address |-> AddrA, forward_to |-> DestOwnUp, allow_plus |-> 1],
     [address |-> <<"y">> \o AtDIo, forward_to |-> <<"z">> \o (<<"@">> \o DefaultDomain), allow_plus |-> 1],
     [address |-> <<"a">> \o (<<"@">> \o DefaultDomain), forward_to |-> <<"Q","@","E","x","a","m","p","l","e",".","C","O","M">>,
      allow_plus |-> 1],
     [address |-> <<"y">> \o (<<"@">> \o DefaultDomain), forward_to |-> DestZ, allow_plus |-> 1]} }

DomainRecipients ==
  { AddrA, AddrAB, <<"y">> \o AtDIo, <<"a">> \o (<<"@">> \o DefaultDomain),
    <<"Y","+","b","@","E","X","A","M","P","L","E",".","c","o","m">>,
    <<"y">> \o (<<"@">> \o DefaultDomain), <<"a","@">> }

InitDomain ==
  /\ aliases \in DomainTables
  /\ envDOMAIN \in DomainSettings
  /\ nMsgs = 0
  /\ msgTo = <<>>
  /\ pc = "idle"
  /\ blk = ""
  /\ rcpt = NoRcpt
  /\ domain = <<>>
  /\ exact = {}
  /\ baseRow = {}
  /\ base = <<>>
  /\ entry = NoEntry
  /\ lookups = <<>>
  /\ forwards = <<>>
  /\ events = <<>>
  /\ writes = <<>>
  /\ rejects = <<>>
  /\ caught = <<>>
  /\ again = NoRcpt
  /\ parked = NoFrame
  /\ ApiIdle
  /\ Quiet

NextDomain ==
  \/ \E to \in DomainRecipients : Receive(to)
  \/ HandlerStep

SpecDomain == InitDomain /\ [][NextDomain]_vars

\* ---------------------------------------------------------------------------
\* The email worker with the table email_logs and its trigger, started on a
\* table that is empty, one row short of the cap, or full
\* ---------------------------------------------------------------------------

\* a table of n rows: ids 1..n in the order of insertion, the clock read at
\* each insertion (several rows within one second; a clock set back once)
LogRows(n) == { [id |-> k, ts |-> IF k % 7 = 3 THEN 1 ELSE 2 + (k \div 2)] : k \in 1..n }

CapTables == { LogRows(0), LogRows(LogCap - 1), LogRows(LogCap) }

CapRecipients == { AddrA, <<"a">> }

InitCap ==
  /\ aliases = {[address |-> AddrA, forward_to |-> DestZ, allow_plus |-> 1]}
  /\ envDOMAIN = <<"d",".","i","o">>
  /\ nMsgs = 0
  /\ msgTo = <<>>
  /\ pc = "idle"
  /\ blk = ""
  /\ rcpt = NoRcpt
  /\ domain = <<>>
  /\ exact = {}
  /\ baseRow = {}
  /\ base = <<>>
  /\ entry = NoEntry
  /\ lookups = <<>>
  /\ forwards = <<>>
  /\ events = <<>>
  /\ writes = <<>>
  /\ rejects = <<>>
  /\ caught = <<>>
  /\ again = NoRcpt
  /\ parked = NoFrame
  /\ ApiIdle
  /\ email_logs \in CapTables
  /\ logSeq = Cardinality(email_logs)
  /\ argv = <<>>
  /\ cli = "off"

NextCap ==
  \/ \E to \in CapRecipients : Receive(to)
  \/ \E ok \in BOOLEAN : ReadMeta(ok)
  \/ CheckDomain
  \/ \E ok \in BOOLEAN : LookupExact(ok)
  \/ \E ok \in BOOLEAN : ForwardExact(ok)
  \/ \E ok \in BOOLEAN : LogEvent(ok)
  \/ \E ok \in BOOLEAN : InsertLog(ok)
  \/ \E ok \in BOOLEAN : SetReject(ok)

SpecCap == InitCap /\ [][NextCap]_vars

\* ---------------------------------------------------------------------------
\* API worker: fetch(request, env) with checkAuth, the router, the route
\* handlers for aliases and their D1 statements.
\* An optional JSON member or header is a set: {} is undefined, {v} is v.
\* ---------------------------------------------------------------------------

the(o) == CHOOSE x \in o : TRUE

\* String.prototype.includes for one character
includes(s, c) == indexOf(s, c) > -1

Bearer == <<"B","e","a","r","e","r"," ">>

checkAuth_prefix(header, requiredKey) ==
  IF requiredKey = <<>>
  THEN TRUE
  ELSE Len(header) >= Len(Bearer) /\ SubSeq(header, 1, Len(Bearer)) = Bearer

\* if (!requiredKey) return true; return authHeader === `Bearer ${requiredKey}`
checkAuth(header, requiredKey) ==
  IF requiredKey = <<>> THEN TRUE ELSE header = Bearer \o requiredKey

toEmail_raw(s) == s

\* (s || "").trim().toLowerCase()
toEmail(s) == toLowerCase(trim(s))

\* toEmail of a member that may be undefined
toEmailOpt(o) == IF o = {} THEN <<>> ELSE toEmail(the(o))

\* SQL NULL / JSON null in column notes
NULL == "NULL"

\* truthiness of a JSON value, written as its literal
Truthy(v) == v \notin {"false", "0", "null", "\"\""}

allowPlusOf_asgiven(o) ==
  IF o = {} THEN 1 ELSE IF the(o) \in {"0", "false"} THEN 0 ELSE IF the(o) = "2" THEN 2 ELSE 1

\* typeof data.allow_plus === "undefined" ? 1 : (data.allow_plus ? 1 : 0)
allowPlusOf(o) == IF o = {} THEN 1 ELSE IF Truthy(the(o)) THEN 1 ELSE 0

\* json(data, { status }) and new Response(text, { status })
Response(status, error, rows) == [status |-> status, error |-> error, rows |-> rows]

NoResponse == Response(0, "", {})

\* a prepared statement with its binds
Stmt(sql, key, values) == [sql |-> sql, key |-> key, values |-> values, limit |-> 0]

NoValues ==
  [address |-> {}, forward_to |-> {}, notes |-> {}, allow_plus |-> {}, created_at |-> {}]

NoStmt == Stmt("", <<>>, NoValues)

\* the invocation answered without touching the store
Answer(r, resp) ==
  [req |-> r, at |-> 0, pc |-> "sent", stmt |-> NoStmt, resp |-> resp, threw |-> FALSE]

\* the invocation awaits the statement st
Await(r, p, st) ==
  [req |-> r, at |-> 0, pc |-> p, stmt |-> st, resp |-> NoResponse, threw |-> FALSE]

\* the route handler the router of fetch() selects
Route(r) ==
  CASE r.method = "GET" /\ r.path = "aliases"                          -> "listAliases"
    [] r.method = "GET" /\ r.path = "by-destination"                   -> "listByDestination"
    [] r.method = "GET" /\ r.path = "alias"                            -> "getAlias"
    [] r.method = "POST" /\ r.path = "aliases"                         -> "createAlias"
    [] r.method = "PATCH" /\ r.path \in {"alias", "by-destination"}    -> "updateAlias"
    [] r.method = "DELETE" /\ r.path \in {"alias", "by-destination"}   -> "deleteAlias"
    [] r.method = "GET" /\ r.path = "logs"                             -> "listEmailLogs"
    [] r.path = "root"                                                 -> "root"
    [] OTHER                                                           -> "notFound"

\* listByDestination up to its statement
listByDestination(r) ==
  LET email == toEmailOpt(r.query)
  IN  IF email = <<>>
      THEN Answer(r, Response(400, "email parameter required", {}))
      ELSE Await(r, "listBy", Stmt("SELECT", email, NoValues))

\* getAlias up to its statement
getAlias(r) ==
  LET addressParam == toEmail(r.seg)
  IN  IF addressParam = <<>>
      THEN Answer(r, Response(400, "Email address required", {}))
      ELSE Await(r, "select", Stmt("SELECT", addressParam, NoValues))

createAlias_novalidation(r, t) ==
  CASE r.body.json = "bad"  -> Answer(r, Response(400, "Invalid JSON body", {}))
    [] r.body.json = "null" -> Answer(r, Response(500, "TypeError", {}))
    [] OTHER ->
         Await(r, "insert",
               Stmt("INSERT", toEmailOpt(r.body.address),
                    [address    |-> {toEmailOpt(r.body.address)},
                     forward_to |-> {toEmailOpt(r.body.forward_to)},
                     notes      |-> {IF r.body.notes = {} THEN NULL ELSE the(r.body.notes)},
                     allow_plus |-> {allowPlusOf(r.body.allow_plus)},
                     created_at |-> {t}]))

\* createAlias up to its INSERT; t is nowSecs()
createAlias(r, t) ==
  LET address    == toEmailOpt(r.body.address)
      forward_to == toEmailOpt(r.body.forward_to)
      notes      == IF r.body.notes = {} THEN NULL ELSE the(r.body.notes)
      allow_plus == allowPlusOf(r.body.allow_plus)
  IN  CASE r.body.json = "bad"  -> Answer(r, Response(400, "Invalid JSON body", {}))
        [] r.body.json = "null" -> Answer(r, Response(500, "TypeError", {}))
        [] address = <<>> \/ forward_to = <<>> ->
             Answer(r, Response(400, "address and forward_to are required", {}))
        [] ~includes(address, "@") \/ ~includes(forward_to, "@") ->
             Answer(r, Response(400, "Invalid email address", {}))
        [] OTHER ->
             Await(r, "insert",
                   Stmt("INSERT", address,
                        [address |-> {address}, forward_to |-> {forward_to},
                         notes |-> {notes}, allow_plus |-> {allow_plus},
                         created_at |-> {t}]))

\* updateAlias up to its UPDATE
updateAlias(r) ==
  LET addressParam == toEmail(r.seg)
      v            == toEmailOpt(r.body.forward_to)
      updates      == [NoValues EXCEPT
                         !.forward_to = IF r.body.forward_to = {} THEN {} ELSE {v},
                         !.notes      = r.body.notes,
                         !.allow_plus = IF r.body.allow_plus = {} THEN {}
                                        ELSE {IF Truthy(the(r.body.allow_plus)) THEN 1 ELSE 0}]
  IN  CASE addressParam = <<>> ->
             Answer(r, Response(400, "Email address required", {}))
        [] r.body.json = "bad"  -> Answer(r, Response(400, "Invalid JSON body", {}))
        [] r.body.json = "null" -> Answer(r, Response(500, "TypeError", {}))
        [] r.body.forward_to # {} /\ (v = <<>> \/ ~includes(v, "@")) ->
             Answer(r, Response(400, "forward_to must be a valid email", {}))
        [] updates = NoValues ->
             Answer(r, Response(400, "No updatable fields provided (forward_to, notes, allow_plus)", {}))
        [] OTHER -> Await(r, "update", Stmt("UPDATE", addressParam, updates))

\* deleteAlias up to its DELETE
deleteAlias(r) ==
  LET addressParam == toEmail(r.seg)
  IN  IF addressParam = <<>>
      THEN Answer(r, Response(400, "Email address required", {}))
      ELSE Await(r, "delete", Stmt("DELETE", addressParam, NoValues))

\* the value of a decimal digit; -1 for any other character
digitValue(c) ==
  CASE c = "0" -> 0 [] c = "1" -> 1 [] c = "2" -> 2 [] c = "3" -> 3 [] c = "4" -> 4
    [] c = "5" -> 5 [] c = "6" -> 6 [] c = "7" -> 7 [] c = "8" -> 8 [] c = "9" -> 9
    [] OTHER -> 0 - 1

isDigit(c) == digitValue(c) >= 0

RECURSIVE digitsLen(_)
\* length of the longest prefix of s made of decimal digits
digitsLen(s) == IF s = <<>> \/ ~isDigit(s[1]) THEN 0 ELSE 1 + digitsLen(Tail(s))

RECURSIVE valueOf(_)
\* the number a string of decimal digits denotes
valueOf(s) ==
  IF s = <<>> THEN 0 ELSE 10 * valueOf(SubSeq(s, 1, Len(s) - 1)) + digitValue(s[Len(s)])

parseInt_strict(s) ==
  IF s # <<>> /\ digitsLen(s) = Len(s) THEN {valueOf(s)} ELSE {}

\* Number.parseInt(s, 10): leading white space is skipped, then an optional
\* sign, then the longest run of digits; whatever follows is ignored.
\* {} is NaN
parseInt(s) ==
  LET t      == trimStart(s)
      signed == t # <<>> /\ t[1] \in {"-", "+"}
      u      == IF signed THEN Tail(t) ELSE t
      n      == digitsLen(u)
  IN  IF n = 0 THEN {}
      ELSE IF signed /\ t[1] = "-" THEN {0 - valueOf(SubSeq(u, 1, n))}
      ELSE {valueOf(SubSeq(u, 1, n))}

limitOf_nocap(rawLimit) ==
  LET given == IF rawLimit = {} \/ the(rawLimit) = <<>>
               THEN <<"5", "0">> ELSE the(rawLimit)
      n     == parseInt(given)
  IN  IF n = {} \/ the(n) <= 0 THEN DefaultLimit ELSE the(n)

\* the LIMIT listEmailLogs binds; rawLimit is url.searchParams.get("limit"),
\* {} when the parameter is missing
limitOf(rawLimit) ==
  LET given == IF rawLimit = {} \/ the(rawLimit) = <<>>
               THEN <<"5", "0">> ELSE the(rawLimit)
      n     == parseInt(given)
      limit == IF n = {} \/ the(n) <= 0 THEN DefaultLimit ELSE the(n)
  IN  IF limit > SafetyCap THEN SafetyCap ELSE limit

\* listEmailLogs up to its statement
listEmailLogs(r) ==
  Await(r, "logs", [Stmt("SELECT", <<>>, NoValues) EXCEPT !.limit = limitOf(r.query)])

\* fetch() from its entry to the first statement it awaits or to its response
fetch(r, requiredKey, t) ==
  IF r.method = "OPTIONS"
  THEN Answer(r, Response(200, "", {}))
  ELSE IF ~checkAuth(r.auth, requiredKey)
  THEN Answer(r, Response(401, "Unauthorized", {}))
  ELSE CASE Route(r) = "listAliases"       -> Await(r, "list", Stmt("SELECT", <<>>, NoValues))
         [] Route(r) = "listByDestination" -> listByDestination(r)
         [] Route(r) = "getAlias"          -> getAlias(r)
         [] Route(r) = "createAlias"       -> createAlias(r, t)
         [] Route(r) = "updateAlias"       -> updateAlias(r)
         [] Route(r) = "deleteAlias"       -> deleteAlias(r)
         [] Route(r) = "listEmailLogs"     -> listEmailLogs(r)
         [] Route(r) = "root"              -> Answer(r, Response(200, "", {}))
         [] OTHER                          -> Answer(r, Response(404, "Not found", {}))

whereAddress_none(table, key) == {}

\* rows of aliases with WHERE address = key (column address is COLLATE NOCASE)

whereAddress(table, key) == {x \in table : toLowerCase(x.address) = toLowerCase(key)}

\* a row after SET of the supplied columns
setColumns_all(x, values) ==
  [x EXCEPT !.forward_to = IF values.forward_to = {} THEN <<>> ELSE the(values.forward_to),
            !.notes      = IF values.notes = {} THEN NULL ELSE the(values.notes),
            !.allow_plus = IF values.allow_plus = {} THEN 1 ELSE the(values.allow_plus)]

setColumns(x, values) ==
  [x EXCEPT !.forward_to = IF values.forward_to = {} THEN @ ELSE the(values.forward_to),
            !.notes      = IF values.notes = {} THEN @ ELSE the(values.notes),
            !.allow_plus = IF values.allow_plus = {} THEN @ ELSE the(values.allow_plus)]

\* the row INSERT adds
newRow(id, values) ==
  [id |-> id, address |-> the(values.address), forward_to |-> the(values.forward_to),
   notes |-> the(values.notes), created_at |-> the(values.created_at),
   allow_plus |-> the(values.allow_plus)]

\* alias: { address, forward_to, notes, allow_plus } of the createAlias response
created(values) ==
  [address |-> the(values.address), forward_to |-> the(values.forward_to),
   notes |-> the(values.notes), allow_plus |-> the(values.allow_plus)]

\* rows left by DELETE FROM aliases WHERE address = key
deleteWhere_none(table, key) == table

deleteWhere(table, key) == table \ whereAddress(table, key)

\* the invocation returns resp
Finish(i, resp) ==
  reqs' = [reqs EXCEPT ![i] = [@ EXCEPT !.pc = "sent", !.resp = resp]]

\* the statement threw and the invocation returns resp from a catch
Fail(i, resp) ==
  reqs' = [reqs EXCEPT ![i] = [@ EXCEPT !.pc = "sent", !.resp = resp, !.threw = TRUE]]

\* an exception that reaches the catch of fetch(): status = e.status || 500
D1Error == Response(500, "D1_ERROR", {})

\* a request arrives at an isolate that is not handling one in slot i
Fetch(i, r) ==
  /\ nReqs < MaxRequests
  /\ reqs[i].pc \in {"free", "sent"}
  /\ nReqs' = nReqs + 1
  /\ reqs' = [reqs EXCEPT ![i] = [fetch(r, apiKey, nReqs + 1) EXCEPT !.at = nReqs + 1]]
  /\ UNCHANGED <<aliases, apiKey, nextId, mail>>

\* INSERT INTO aliases ...; the catch of createAlias answers 409 to any error
Insert(i, ok) ==
  /\ reqs[i].pc = "insert"
  /\ IF ok /\ whereAddress(aliases, reqs[i].stmt.key) = {}
     THEN /\ aliases' = aliases \cup {newRow(nextId, reqs[i].stmt.values)}
          /\ nextId' = nextId + 1
          /\ Finish(i, Response(200, "", {created(reqs[i].stmt.values)}))
     ELSE /\ IF ok
             THEN Finish(i, Response(409, "Alias already exists", {}))
             ELSE Fail(i, Response(409, "Alias already exists", {}))
          /\ UNCHANGED <<aliases, nextId>>
  /\ UNCHANGED <<apiKey, nReqs, mail>>

\* UPDATE aliases SET ... WHERE address = ?; 404 when res.meta.changes === 0
Update(i, ok) ==
  /\ reqs[i].pc = "update"
  /\ IF ~ok
     THEN Fail(i, D1Error) /\ UNCHANGED aliases
     ELSE LET hit == whereAddress(aliases, reqs[i].stmt.key)
          IN  /\ aliases' = (aliases \ hit) \cup {setColumns(x, reqs[i].stmt.values) : x \in hit}
              /\ IF hit = {}
                 THEN Finish(i, Response(404, "Alias not found", {}))
                 ELSE reqs' = [reqs EXCEPT ![i] = [@ EXCEPT !.pc = "reselect"]]
  /\ UNCHANGED <<apiKey, nextId, nReqs, mail>>

\* the SELECT of updateAlias that returns the updated row (or null)
Reselect(i, ok) ==
  /\ reqs[i].pc = "reselect"
  /\ IF ok
     THEN Finish(i, Response(200, "", first(aliases, reqs[i].stmt.key)))
     ELSE Fail(i, D1Error)
  /\ UNCHANGED <<aliases, apiKey, nextId, nReqs, mail>>

\* DELETE FROM aliases WHERE address = ?; 404 when result.meta.changes === 0
Delete(i, ok) ==
  /\ reqs[i].pc = "delete"
  /\ IF ~ok
     THEN Fail(i, D1Error) /\ UNCHANGED aliases
     ELSE LET hit == whereAddress(aliases, reqs[i].stmt.key)
          IN  /\ aliases' = deleteWhere(aliases, reqs[i].stmt.key)
              /\ IF hit = {}
                 THEN Finish(i, Response(404, "Alias not found", {}))
                 ELSE Finish(i, Response(200, "", {}))
  /\ UNCHANGED <<apiKey, nextId, nReqs, mail>>

\* the SELECT ... WHERE address = ? LIMIT 1 of getAlias
Select(i, ok) ==
  /\ reqs[i].pc = "select"
  /\ IF ~ok
     THEN Fail(i, D1Error)
     ELSE LET row == first(aliases, reqs[i].stmt.key)
          IN  IF row = {}
              THEN Finish(i, Response(404, "Alias not found", {}))
              ELSE Finish(i, Response(200, "", row))
  /\ UNCHANGED <<aliases, apiKey, nextId, nReqs, mail>>

\* the SELECT of listAliases and of listByDestination (WHERE forward_to = ?)
List(i, ok) ==
  /\ reqs[i].pc \in {"list", "listBy"}
  /\ IF ~ok
     THEN Fail(i, D1Error)
     ELSE IF reqs[i].pc = "list"
          THEN Finish(i, Response(200, "", aliases))
          ELSE Finish(i, Response(200, "", {x \in aliases : x.forward_to = reqs[i].stmt.key}))
  /\ UNCHANGED <<aliases, apiKey, nextId, nReqs, mail>>

\* ORDER BY ts DESC, id DESC: row x comes before row y
before(x, y) == x.ts > y.ts \/ (x.ts = y.ts /\ x.id > y.id)

byId(x, y) == x.id > y.id

orderedLimit_byid(table, top, limit) ==
  LET all == SortSeq(inIdOrder(table, 1, top), byId)
  IN  SubSeq(all, 1, IF Len(all) < limit THEN Len(all) ELSE limit)

\* the rows of SELECT ... FROM email_logs ORDER BY ts DESC, id DESC LIMIT limit;
\* top is the greatest id the table has given
orderedLimit(table, top, limit) ==
  LET all == SortSeq(inIdOrder(table, 1, top), before)
  IN  SubSeq(all, 1, IF Len(all) < limit THEN Len(all) ELSE limit)

\* the SELECT of listEmailLogs; json(result.results ?? [])
Logs(i, ok) ==
  /\ reqs[i].pc = "logs"
  /\ IF ok
     THEN Finish(i, Response(200, "", orderedLimit(email_logs, logSeq, reqs[i].stmt.limit)))
     ELSE Fail(i, D1Error)
  /\ UNCHANGED <<aliases, apiKey, nextId, nReqs, mail>>

\* requests: method, path ("aliases" = /aliases, "alias" = /aliases/<seg>,
\* "by-destination", "logs", "root" = /, "other"), the decoded last path
\* segment, the query parameter the route reads (email, limit), the
\* Authorization header and the JSON body
Req(method, path, seg, query, auth, body) ==
  [method |-> method, path |-> path, seg |-> seg, query |-> query, auth |-> auth,
   body |-> body]

\* json: "none" (no body), "bad" (unparsable), "null", "object"
Body(json, address, forward_to, notes, allow_plus) ==
  [json |-> json, address |-> address, forward_to |-> forward_to, notes |-> notes,
   allow_plus |-> allow_plus]

NoBody == Body("none", {}, {}, {}, {})

NoRequest == Req("", "", <<>>, {}, <<>>, NoBody)

FreeSlot ==
  [req |-> NoRequest, at |-> 0, pc |-> "free", stmt |-> NoStmt, resp |-> NoResponse,
   threw |-> FALSE]

ApiKeys == { <<>>, <<"k">> }

AuthHeaders == { <<>>, Bearer \o <<"k">>, Bearer \o <<"x">> }

PathAddresses == { AddrAUp, AddrAB, <<>> }

PostBodies ==
  { Body("bad", {}, {}, {}, {}), Body("null", {}, {}, {}, {}) } \cup
  { Body("object", a, {<<" ","Z","@","O",".","I","O">>}, {}, {}) :
      a \in { {}, {<<" ","A","@","D",".","I","O"," ">>}, {AddrA}, {<<"a">>} } } \cup
  { Body("object", {<<" ","A","@","D",".","I","O"," ">>}, f, {"n"}, p) :
      f \in { {}, {<<" ","Z","@","O",".","I","O">>}, {<<"z">>} },
      p \in { {}, {"false"}, {"2"} } }

PatchBodies ==
  { Body("bad", {}, {}, {}, {}), Body("null", {}, {}, {}, {}) } \cup
  { Body("object", {}, f, {}, p) :
      f \in { {}, {<<" ","Y","@","O",".","I","O">>}, {<<"z">>} },
      p \in { {}, {"0"}, {"true"} } } \cup
  { Body("object", {}, f, n, {}) :
      f \in { {}, {<<" ","Y","@","O",".","I","O">>} },
      n \in { {NULL}, {"m"} } }

RequestsWith(auths) ==
  UNION { { Req("OPTIONS", "aliases", <<>>, {}, h, NoBody),
            Req("GET", "aliases", <<>>, {}, h, NoBody),
            Req("GET", "root", <<>>, {}, h, NoBody),
            Req("DELETE", "aliases", <<>>, {}, h, NoBody),
            Req("GET", "by-destination", <<>>, {}, h, NoBody),
            Req("GET", "by-destination", <<>>, {<<" ","Y","@","O",".","I","O">>}, h, NoBody) }
          \cup { Req("GET", "alias", a, {}, h, NoBody) : a \in PathAddresses }
          \cup { Req("DELETE", "alias", a, {}, h, NoBody) : a \in PathAddresses }
          \cup { Req("POST", "aliases", <<>>, {}, h, b) : b \in PostBodies }
          \cup { Req("PATCH", "alias", a, {}, h, b) : a \in PathAddresses, b \in PatchBodies }
          : h \in auths }

Requests == RequestsWith(AuthHeaders)

\* the requests of two concurrent invocations
ConcRequests ==
  { Req("POST", "aliases", <<>>, {}, <<>>,
        Body("object", {<<" ","A","@","D",".","I","O"," ">>},
             {<<" ","Z","@","O",".","I","O">>}, {}, {})),
    Req("POST", "aliases", <<>>, {}, <<>>,
        Body("object", {AddrA}, {DestY}, {"n"}, {"false"})),
    Req("PATCH", "alias", AddrAUp, {}, <<>>,
        Body("object", {}, {<<" ","Y","@","O",".","I","O">>}, {}, {})),
    Req("PATCH", "alias", AddrA, {}, <<>>, Body("object", {}, {}, {"m"}, {"0"})),
    Req("DELETE", "alias", AddrAUp, {}, <<>>, NoBody),
    Req("GET", "alias", AddrAUp, {}, <<>>, NoBody),
    Req("GET", "aliases", <<>>, {}, <<>>, NoBody) }

\* table contents when the API worker starts: empty, or one alias
ApiTables ==
  { {},
    {[id |-> 1, address |-> AddrAB, forward_to |-> DestY, notes |-> "n",
      created_at |-> 0, allow_plus |-> 1]} }

\* no message has reached the email worker
MailIdle ==
  /\ envDOMAIN = <<"d",".","i","o">>
  /\ nMsgs = 0
  /\ msgTo = <<>>
  /\ pc = "idle"
  /\ blk = ""
  /\ rcpt = NoRcpt
  /\ domain = <<>>
  /\ exact = {}
  /\ baseRow = {}
  /\ base = <<>>
  /\ entry = NoEntry
  /\ lookups = <<>>
  /\ forwards = <<>>
  /\ events = <<>>
  /\ writes = <<>>
  /\ rejects = <<>>
  /\ caught = <<>>
  /\ again = NoRcpt
  /\ parked = NoFrame

InitApi ==
  /\ MailIdle
  /\ aliases \in ApiTables
  /\ apiKey \in ApiKeys
  /\ reqs = <<FreeSlot>>
  /\ nextId = Cardinality(aliases) + 1
  /\ nReqs = 0
  /\ Quiet

InitApiConc ==
  /\ MailIdle
  /\ aliases \in ApiTables
  /\ apiKey = <<>>
  /\ reqs = <<FreeSlot, FreeSlot>>
  /\ nextId = Cardinality(aliases) + 1
  /\ nReqs = 0
  /\ Quiet

\* the statements an invocation awaits
Statement ==
  \/ \E i \in DOMAIN reqs, ok \in BOOLEAN : Insert(i, ok)
  \/ \E i \in DOMAIN reqs, ok \in BOOLEAN : Update(i, ok)
  \/ \E i \in DOMAIN reqs, ok \in BOOLEAN : Reselect(i, ok)
  \/ \E i \in DOMAIN reqs, ok \in BOOLEAN : Delete(i, ok)
  \/ \E i \in DOMAIN reqs, ok \in BOOLEAN : Select(i, ok)
  \/ \E i \in DOMAIN reqs, ok \in BOOLEAN : List(i, ok)

NextApi ==
  \/ \E i \in DOMAIN reqs, r \in Requests : Fetch(i, r)
  \/ Statement

SpecApi == InitApi /\ [][NextApi]_vars

NextApiConc ==
  \/ \E i \in DOMAIN reqs, r \in ConcRequests : Fetch(i, r)
  \/ Statement

SpecApiConc == InitApiConc /\ [][NextApiConc]_vars

\* ---------------------------------------------------------------------------
\* The CLI: mailhop create <alias> <forward-to> [notes] [--no-plus], run once
\* against an API worker that requires no key and has no alias yet
\* ---------------------------------------------------------------------------

NoPlusFlag == <<"-","-","n","o","-","p","l","u","s">>

RECURSIVE text(_)
\* a string as a value of column notes
text(s) == IF s = <<>> THEN "" ELSE s[1] \o text(Tail(s))

\* command lines after the word create: up to MaxArgs arguments
ArgLists ==
  UNION { [1..n -> {AddrA, DestZ, <<"n">>, NoPlusFlag}] : n \in 0..MaxArgs }

\* const [address, forwardTo, notes, ...rest] = args: the word at position k,
\* {} when there is none (undefined)
argAt(args, k) == IF k <= Len(args) THEN {args[k]} ELSE {}

\* const allowPlus = !rest.includes("--no-plus")
allowPlusArg(args) ==
  ~\E k \in 4..Len(args) : args[k] = NoPlusFlag

\* createAlias of the CLI: JSON.stringify({ address, forward_to, notes,
\* allow_plus }) leaves out a member that is undefined
createBody(args) ==
  Body("object", argAt(args, 1), argAt(args, 2),
       IF argAt(args, 3) = {} THEN {} ELSE {text(args[3])},
       {IF allowPlusArg(args) THEN "true" ELSE "false"})

\* main(), case "create", up to the request it awaits: the usage error, or
\* POST /aliases as the API worker receives it
Main ==
  /\ cli = "start"
  /\ IF argAt(argv, 1) \in {{}, {<<>>}} \/ argAt(argv, 2) \in {{}, {<<>>}}
     THEN /\ cli' = "usage"
          /\ UNCHANGED <<reqs, nReqs>>
     ELSE /\ cli' = "posted"
          /\ nReqs' = nReqs + 1
          /\ reqs' = [reqs EXCEPT ![1] =
                        [fetch(Req("POST", "aliases", <<>>, {}, <<>>, createBody(argv)),
                               apiKey, nReqs + 1) EXCEPT !.at = nReqs + 1]]
  /\ UNCHANGED <<aliases, apiKey, nextId, envDOMAIN, nMsgs, msgTo, pc, blk, rcpt, domain,
                 exact, baseRow, base, entry, lookups, forwards, events, writes, rejects,
                 caught, again, parked, store, argv>>

\* request() returns res.json() or throws "API error"; main prints and ends
Report ==
  /\ cli = "posted"
  /\ reqs[1].pc = "sent"
  /\ cli' = (IF reqs[1].resp.status = 200 THEN "created" ELSE "failed")
  /\ UNCHANGED <<aliases, api, envDOMAIN, nMsgs, msgTo, pc, blk, rcpt, domain,
                 exact, baseRow, base, entry, lookups, forwards, events, writes, rejects,
                 caught, again, parked, store, argv>>

InitCli ==
  /\ MailIdle
  /\ aliases = {}
  /\ apiKey = <<>>
  /\ reqs = <<FreeSlot>>
  /\ nextId = 1
  /\ nReqs = 0
  /\ email_logs = {}
  /\ logSeq = 0
  /\ argv \in ArgLists
  /\ cli = "start"

NextCli ==
  \/ Main
  \/ \E ok \in BOOLEAN : Insert(1, ok)
  \/ Report

SpecCli == InitCli /\ [][NextCli]_vars

\* ---------------------------------------------------------------------------
\* GET /logs over a table email_logs that other requests do not change
\* ---------------------------------------------------------------------------

\* values of the query parameter limit; {} = no parameter
LimitParams ==
  { {}, {<<>>}, {<<"0">>}, {<<"1">>}, {<<"2">>}, {<<"3">>}, {<<"5","0">>},
    {<<"5","1">>}, {<<"5","0","0">>}, {<<"5","0","1">>}, {<<"9","9","9","9">>},
    {<<"-","2">>}, {<<"+","2">>}, {<<"a">>}, {<<"a","2">>}, {<<"2","a">>},
    {<<" ","2">>}, {<<"1",".","9">>}, {<<"0","0","2">>} }

LogRequests ==
  { Req("GET", "logs", <<>>, q, h, NoBody) : q \in LimitParams, h \in {<<>>} } \cup
  { Req("GET", "logs", <<>>, {<<"2">>}, Bearer \o <<"x">>, NoBody),
    Req("POST", "logs", <<>>, {<<"2">>}, <<>>, NoBody),
    Req("OPTIONS", "logs", <<>>, {<<"2">>}, <<>>, NoBody) }

LogTables == { LogRows(0), LogRows(4), LogRows(DefaultLimit + 1), LogRows(SafetyCap + 1) }

InitLogs ==
  /\ MailIdle
  /\ aliases = {}
  /\ apiKey \in ApiKeys
  /\ reqs = <<FreeSlot>>
  /\ nextId = 1
  /\ nReqs = 0
  /\ email_logs \in LogTables
  /\ logSeq = Cardinality(email_logs)
  /\ argv = <<>>
  /\ cli = "off"

NextLogs ==
  \/ \E i \in DOMAIN reqs, r \in LogRequests : Fetch(i, r)
  \/ \E i \in DOMAIN reqs, ok \in BOOLEAN : Logs(i, ok)

SpecLogs == InitLogs /\ [][NextLogs]_vars

\* ---------------------------------------------------------------------------
\* splitAddress on its own: applied to a raw string, then to its own full
\* ---------------------------------------------------------------------------

RawChars == {"a", "A", "@", "+", " "}

RawStrings == UNION {[1..n -> RawChars] : n \in 0..MaxRawLen}

InitNorm ==
  /\ aliases = {}
  /\ envDOMAIN = <<>>
  /\ nMsgs = 0
  /\ msgTo \in RawStrings
  /\ pc = "raw"
  /\ blk = ""
  /\ rcpt = NoRcpt
  /\ domain = <<>>
  /\ exact = {}
  /\ baseRow = {}
  /\ base = <<>>
  /\ entry = NoEntry
  /\ lookups = <<>>
  /\ forwards = <<>>
  /\ events = <<>>
  /\ writes = <<>>
  /\ rejects = <<>>
  /\ caught = <<>>
  /\ again = NoRcpt
  /\ parked = NoFrame
  /\ ApiIdle
  /\ Quiet

\* const rcpt = splitAddress(raw)
Normalize ==
  /\ pc = "raw"
  /\ rcpt' = splitAddress(msgTo)
  /\ pc' = "split"
  /\ UNCHANGED <<config, pure, apart, nMsgs, msgTo, blk, domain, exact, baseRow, base,
                 entry, history, caught>>

\* splitAddress(rcpt.full)
NormalizeAgain ==
  /\ pc = "split"
  /\ again' = splitAddress(rcpt.full)
  /\ pc' = "resplit"
  /\ UNCHANGED <<config, apart, nMsgs, msgTo, blk, locals, entry, history, caught>>

NextNorm == Normalize \/ NormalizeAgain

SpecNorm == InitNorm /\ [][NextNorm]_vars

TypeOK ==
  /\ pc \in {"idle", "meta", "check", "lookupExact", "forwardExact", "lookupBase",
             "forwardBase", "logEvent", "persistLog", "setReject", "done", "threw",
             "raw", "split", "resplit"}
  /\ nMsgs \in 0..MaxMessages
  /\ nReqs \in 0..MaxRequests
  /\ \A i \in DOMAIN reqs :
       reqs[i].pc \in {"free", "insert", "update", "reselect", "delete", "select",
                       "list", "listBy", "logs", "sent"}
  /\ logSeq \in Nat
  /\ \A x \in email_logs : x.id \in 1..logSeq
  /\ cli \in {"off", "start", "usage", "posted", "created", "failed"}

\* ---------------------------------------------------------------------------
\* Vocabulary of the properties, computed from the message and the table
\* ---------------------------------------------------------------------------

\* the worker's own domain
OwnDomain == getDomain(envDOMAIN)

\* the normalized recipient of the message being handled
NormTo == splitAddress(msgTo)

InFlight == pc # "idle"

\* addresses equal under case-insensitive comparison
SameAddress(x, y) == toLowerCase(x) = toLowerCase(y)

\* the aliases whose address is the full recipient address
ExactAliases == {r \in aliases : SameAddress(r.address, NormTo.full)}

HasPlus == \E i \in 1..Len(NormTo.local) : NormTo.local[i] = "+"

\* the recipient with everything from its earliest '+' to the '@' removed
EarliestBase ==
  slice(NormTo.local, 0, indexOf(NormTo.local, "+")) \o <<"@">> \o NormTo.domain

\* the recipient with everything from its last '+' to the '@' removed
LastBase ==
  slice(NormTo.local, 0, lastIndexOf(NormTo.local, "+")) \o <<"@">> \o NormTo.domain

\* the plus-enabled aliases whose address is the earliest-'+' base
PlusAliases ==
  {r \in aliases : HasPlus /\ SameAddress(r.address, EarliestBase) /\ r.allow_plus = 1}

InOwnDomain(addr) == splitAddress(addr).domain = OwnDomain

OkForwards == {i \in 1..Len(forwards) : forwards[i].ok}

OkRejects == {i \in 1..Len(rejects) : rejects[i].ok}

\* the recipient is a well-formed address of the worker domain
ToOwnDomain == NormTo.local # <<>> /\ NormTo.domain = OwnDomain

\* the alias lookups of this message returned normally
LookupsReturned ==
  \A i \in 1..Len(caught) : caught[i].src \notin {"meta", "lookupExact", "lookupBase"}

\* the routing decision has been made: the first entry handed to the logger
Decided == events # <<>> /\ LookupsReturned

Decision == events[1].entry

RejInvalid == Reject(550, "Invalid recipient for this domain", <<>>)
RejLoop    == Reject(550, "Routing loop detected", <<>>)
RejNoUser  == Reject(550, "No such user at", OwnDomain)

\* ---------------------------------------------------------------------------
\* Properties
\* ---------------------------------------------------------------------------

\* C1: message.forward is never invoked with a destination whose normalized
\* domain is the worker domain; when the alias a recipient of the worker
\* domain resolves to (the exact alias, else the plus-enabled base alias) has
\* such a forward_to,
\* no delivery is attempted and the decision is a routing-loop rejection,
\* whatever the route kind and allow_plus of the alias.
C1_NoForwardIntoOwnDomain ==
  /\ \A i \in 1..Len(forwards) : ~InOwnDomain(forwards[i].dest)
  /\ LET resolved == IF ExactAliases # {} THEN ExactAliases ELSE PlusAliases
     IN  (InFlight /\ ToOwnDomain /\ \E r \in resolved : InOwnDomain(r.forward_to)) =>
           /\ forwards = <<>>
           /\ Decided =>
                /\ Decision.result = "rejected"
                /\ Decision.error = LoopError
                /\ Decision.route \in {"exact", "base+tag"}
           /\ (rejects # <<>> /\ caught = <<>>) => rejects[1].arg = RejLoop

C1_Witness ==
  /\ pc = "done"
  /\ blk \in {"exact-loop", "base-loop"}
  /\ entry.dest = DestOwnUp
  /\ forwards = <<>>
  /\ rejects = <<[arg |-> RejLoop, ok |-> TRUE]>>

\* C2: a message whose handler has returned has exactly one terminal
\* transport action: one successful forward and no reject, or one reject with
\* code 550 and no successful forward; no other code is produced, no reject
\* is delivered twice, none after a successful forward.
C2_ExactlyOneTerminalAction ==
  /\ \A i \in 1..Len(rejects) : rejects[i].arg.code = 550
  /\ Cardinality(OkRejects) <= 1
  /\ OkRejects # {} => OkForwards = {}
  /\ pc = "done" =>
       \/ Cardinality(OkForwards) = 1 /\ OkRejects = {}
       \/ OkForwards = {} /\ Cardinality(OkRejects) = 1

\* C3: a recipient whose domain differs from the worker domain causes no
\* alias lookup and no forward, is classified invalid-domain / rejected, and
\* (no exception intervening) is rejected with the invalid-recipient reply.
C3_InvalidDomainNoLookup ==
  (InFlight /\ NormTo.domain # OwnDomain) =>
    /\ lookups = <<>>
    /\ forwards = <<>>
    /\ events # <<>> =>
         /\ Decision.route = "invalid-domain"
         /\ Decision.result = "rejected"
         /\ Decision.error = DomainError
    /\ (pc = "done" /\ caught = <<>>) => rejects = <<[arg |-> RejInvalid, ok |-> TRUE]>>

C3_Witness ==
  /\ pc = "done"
  /\ msgTo = <<"a">> \o AtOIo
  /\ lookups = <<>>
  /\ rejects = <<[arg |-> RejInvalid, ok |-> TRUE]>>
  /\ Len(writes) = 1

\* C4: every destination handed to message.forward is the forward_to of the
\* alias whose address is the normalized recipient or, only when there is no
\* such alias, of the plus-enabled alias whose address is the recipient's
\* base address.
C4_ForwardOnlyToResolvedAlias ==
  \A i \in 1..Len(forwards) :
    IF ExactAliases # {}
    THEN \E r \in ExactAliases : forwards[i].dest = r.forward_to
    ELSE \E r \in PlusAliases : forwards[i].dest = r.forward_to

C4_Witness ==
  /\ pc = "done"
  /\ blk = "base-ok"
  /\ ExactAliases = {}
  /\ forwards = <<[dest |-> DestZ, ok |-> TRUE]>>

\* C5: when the table holds both an alias for the full address of a recipient
\* of the worker domain and a plus-enabled alias for its base, the exact
\* alias routes the message:
\* the base is never looked up, every entry of a routing decision has route
\* exact and no base, and every forward goes to the exact alias's forward_to.
C5_ExactBeforePlus ==
  (InFlight /\ ToOwnDomain /\ ExactAliases # {} /\ PlusAliases # {}) =>
    /\ \A i \in 1..Len(lookups) : lookups[i] = NormTo.full
    /\ \A i \in 1..Len(forwards) :
         \E r \in ExactAliases : forwards[i].dest = r.forward_to
    /\ \A i \in 1..Len(events) :
         /\ events[i].entry.route \in {"exact", "exception"}
         /\ events[i].entry.base = <<>>
    /\ Decided =>
         /\ Decision.route = "exact"
         /\ \E r \in ExactAliases : Decision.dest = r.forward_to

C5_Witness ==
  /\ pc = "done"
  /\ msgTo = AddrAB
  /\ \E r \in PlusAliases : r.forward_to = DestZ
  /\ blk = "exact-ok"
  /\ forwards = <<[dest |-> DestY, ok |-> TRUE]>>

\* C6: for a recipient of the worker domain that contains '+' and has no
\* exact alias, the decision is base+tag (with the base address and the base
\* alias's forward_to) exactly when the base alias exists with allow_plus
\* set; otherwise it is none / rejected, nothing is forwarded and (no
\* exception intervening) the reply is the no-such-user reject.
C6_PlusIffBaseAllowsPlus ==
  (InFlight /\ ToOwnDomain /\ HasPlus /\ ExactAliases = {} /\ Decided) =>
    IF PlusAliases # {}
    THEN /\ Decision.route = "base+tag"
         /\ Decision.base = EarliestBase
         /\ \E r \in PlusAliases : Decision.dest = r.forward_to
    ELSE /\ Decision.route = "none"
         /\ Decision.result = "rejected"
         /\ Decision.error = NoneError
         /\ forwards = <<>>
         /\ (pc = "done" /\ caught = <<>>) => rejects = <<[arg |-> RejNoUser, ok |-> TRUE]>>

C6_Witness ==
  /\ pc = "done"
  /\ blk = "none"
  /\ baseRow # {}
  /\ Row(baseRow).allow_plus = 0
  /\ rejects = <<[arg |-> RejNoUser, ok |-> TRUE]>>

\* C7: the only base address looked up is the recipient cut at its earliest
\* '+'; for user+a+b@domain the address user+a@domain is never looked up.
C7_BaseCutAtEarliestPlus ==
  InFlight =>
    /\ \A i \in 1..Len(lookups) : lookups[i] \in {NormTo.full, EarliestBase}
    /\ (HasPlus /\ LastBase # EarliestBase) =>
         \A i \in 1..Len(lookups) : lookups[i] # LastBase

C7_Witness ==
  /\ pc = "done"
  /\ msgTo = <<"a","+","b","+","c">> \o AtDIo
  /\ \E r \in aliases : r.address = AddrAB /\ r.allow_plus = 1
  /\ lookups = <<NormTo.full, AddrA>>

\* C8 as stated: the second lookup of a message is for the recipient cut at
\* its last '+'.
C8_BaseCutAtLastPlus ==
  Len(lookups) = 2 => lookups[2] = LastBase

\* C8 amended: the second lookup of a message is for the recipient cut at its
\* first '+', local[:index of the first '+'] + '@' + domain, and that is the
\* base address of a base+tag decision.
C8_BaseCutAtFirstPlus ==
  /\ Len(lookups) = 2 => lookups[2] = EarliestBase /\ base = EarliestBase
  /\ \A i \in 1..Len(events) :
       events[i].entry.route = "base+tag" => events[i].entry.base = EarliestBase

C8_Witness ==
  /\ pc = "done"
  /\ LastBase # EarliestBase
  /\ blk = "base-ok"
  /\ entry.base = AddrA
  /\ Len(lookups) = 2

\* C9: exactly one durable log write is attempted per handled message, on
\* every path and whatever failed on the way.
C9_ExactlyOneLogWrite ==
  /\ Len(writes) <= 1
  /\ pc = "done" => Len(writes) = 1

\* C10: the durable write does not influence the outcome: the step that
\* attempts it, whether the INSERT succeeds or fails, raises nothing, leaves
\* the forwards, the rejects, the block and the entry as they were, and
\* continues at the same place (the reject of the block, or the end after a
\* forward).
C10_LogWriteNeverAltersOutcome ==
  [][ Len(writes') = Len(writes) + 1 =>
        /\ caught' = caught
        /\ forwards' = forwards
        /\ rejects' = rejects
        /\ blk' = blk
        /\ entry' = entry
        /\ IF entry.result = "forwarded" THEN pc' = "done" ELSE pc' = "setReject" ]_vars

C10_Witness ==
  /\ pc = "done"
  /\ Len(writes) = 1
  /\ ~writes[1].ok
  /\ forwards = <<[dest |-> DestZ, ok |-> TRUE]>>
  /\ rejects = <<>>
  /\ caught = <<>>

RejNotVerified == Reject(550, "Destination not verified", <<>>)
RejInternal    == Reject(550, "Internal error", <<>>)

\* the alias a recipient of the worker domain resolves to
Resolved == IF ExactAliases # {} THEN ExactAliases ELSE PlusAliases

\* C11: a failure of the console emission is discarded like a failure of the
\* durable write: it enters no catch clause, and a message whose forward
\* succeeded is never rejected afterwards.
C11_EventFailureDiscarded ==
  /\ \A i \in 1..Len(caught) : caught[i].src # "logEvent"
  /\ OkForwards # {} => rejects = <<>>

\* C12: forward is invoked at most once per message, so a failed forward is
\* not retried, with the same or another destination; a message of the
\* worker domain that resolved to an alias whose forward_to is outside the
\* worker domain has had exactly one forward by the time anything is logged.
C12_ForwardAtMostOnce ==
  /\ Len(forwards) <= 1
  /\ (InFlight /\ ToOwnDomain /\ Resolved # {} /\ Decided
        /\ \A r \in Resolved : ~InOwnDomain(r.forward_to)) =>
       /\ Len(forwards) = 1
       /\ \E r \in Resolved : forwards[1].dest = r.forward_to

C12_Witness ==
  /\ pc = "done"
  /\ forwards = <<[dest |-> DestZ, ok |-> FALSE]>>
  /\ Len(lookups) = 2
  /\ rejects = <<[arg |-> RejNotVerified, ok |-> TRUE]>>

\* C13: when forward throws, the entry handed to the logger has result error,
\* the route of the alias that was tried and the destination that was tried,
\* it is the entry of the durable write, and (no further exception
\* intervening) the reply is the destination-not-verified reject.
C13_ForwardFailureLoggedAndRejected ==
  (forwards # <<>> /\ ~forwards[1].ok) =>
    LET built == IF events = <<>> THEN entry ELSE Decision
    IN
    /\ built.result = "error"
    /\ built.dest = forwards[1].dest
    /\ built.route = (IF ExactAliases # {} THEN "exact" ELSE "base+tag")
    /\ built.base = (IF ExactAliases # {} THEN <<>> ELSE EarliestBase)
    /\ built.error = "Error: destination address not verified"
    /\ (writes # <<>> /\ events[1].ok) => writes[1].entry = built
    /\ (pc = "done" /\ Len(caught) = 1) =>
         /\ rejects = <<[arg |-> RejNotVerified, ok |-> TRUE]>>
         /\ Len(writes) = 1

C13_Witness ==
  /\ pc = "done"
  /\ forwards = <<[dest |-> DestY, ok |-> FALSE]>>
  /\ writes = <<[entry |-> Entry("exact", <<>>, DestY, "error",
                                 "Error: destination address not verified"),
                 ok |-> TRUE]>>
  /\ rejects = <<[arg |-> RejNotVerified, ok |-> TRUE]>>

\* C14: no exception leaves the handler: every failure, wherever raised, is
\* caught, an entry with result error is handed to the logger and the reply
\* is the internal-error reject.
C14_NoExceptionPropagates ==
  /\ pc # "threw"
  /\ \A i \in 1..Len(caught) : caught[i].handler # "propagate"
  /\ (pc = "done" /\ caught # <<>>) =>
       /\ entry.result = "error"
       /\ rejects # <<>>
       /\ rejects[Len(rejects)].ok

\* C15: every message that is received eventually has a terminal outcome:
\* the handler returns with the message forwarded or rejected.
C15_EventuallyForwardedOrRejected ==
  (pc = "meta") ~> (pc = "done" /\ (OkForwards # {} \/ OkRejects # {}))

\* the pipeline stage a handler position belongs to: 1 Received,
\* 2 Normalizing, 3 Resolving and LoopChecking (the loop check is evaluated
\* as soon as a lookup has returned an alias), 4 Delivering, 5 Logging (the
\* log-and-respond block), 6 Terminal (the handler has ended)
StageOf(p) ==
  CASE p = "idle"                                     -> 0
    [] p = "meta"                                     -> 1
    [] p = "check"                                    -> 2
    [] p \in {"lookupExact", "lookupBase"}            -> 3
    [] p \in {"forwardExact", "forwardBase"}          -> 4
    [] p \in {"logEvent", "persistLog", "setReject"}  -> 5
    [] OTHER                                          -> 6

\* a reject is issued only after the durable write of the entry it answers
LoggedBeforeReject ==
  Len(rejects') = Len(rejects) + 1 =>
    /\ writes # <<>>
    /\ writes[Len(writes)].entry = entry
    /\ Len(writes) = Len(rejects) + 1

\* C16 as stated, for a handler in which no call has thrown: every step
\* stays in its stage or enters the next one, so no stage is skipped or
\* revisited, and the decision is logged before the reject is issued.
C16_EveryStageInOrder ==
  [][ /\ (pc' # "meta" /\ caught' = <<>>) =>
           StageOf(pc') \in {StageOf(pc), StageOf(pc) + 1}
      /\ LoggedBeforeReject ]_vars

\* C16 amended: a handler never returns to an earlier stage, but a message
\* that is rejected or raises skips the stages between its decision and
\* Logging (or Terminal); no forward is attempted once anything was logged,
\* and every reject is issued only after the durable write of its entry.
C16_StagesOnlyForward ==
  [][ /\ pc' # "meta" => StageOf(pc') >= StageOf(pc)
      /\ Len(forwards') = Len(forwards) + 1 =>
           events = <<>> /\ writes = <<>> /\ rejects = <<>> /\ lookups # <<>>
      /\ Len(lookups') = Len(lookups) + 1 => forwards = <<>> /\ events = <<>>
      /\ LoggedBeforeReject ]_vars

C16_Witness ==
  /\ pc = "done"
  /\ blk = "none"
  /\ lookups = <<NormTo.full>>
  /\ forwards = <<>>
  /\ writes = <<[entry |-> entry, ok |-> TRUE]>>
  /\ rejects = <<[arg |-> RejNoUser, ok |-> TRUE]>>

\* the reject text that belongs to the outcome class of a log entry
ReasonFor(e) ==
  CASE e.route = "invalid-domain"                                -> "Invalid recipient for this domain"
    [] e.route = "none"                                          -> "No such user at"
    [] e.route = "exception"                                     -> "Internal error"
    [] e.route \in {"exact", "base+tag"} /\ e.result = "rejected" -> "Routing loop detected"
    [] e.route \in {"exact", "base+tag"} /\ e.result = "error"    -> "Destination not verified"
    [] OTHER                                                     -> "none"

IsTrimmedLowerCaseOf(f, raw) ==
  /\ f # <<>> => f[1] # " " /\ f[Len(f)] # " "
  /\ \E k \in 0..Len(raw) :
       /\ k + Len(f) <= Len(raw)
       /\ \A i \in 1..k : raw[i] = " "
       /\ \A i \in 1..Len(f) : f[i] = LowerChar(raw[k + i])
       /\ \A i \in (k + Len(f) + 1)..Len(raw) : raw[i] = " "

\* C18: splitAddress is idempotent and case-folding: splitting the full of a
\* split address gives the same local, domain and full, and full is the raw
\* string trimmed and in lower case.
C18_SplitAddressIdempotent ==
  /\ pc \in {"split", "resplit"} => IsTrimmedLowerCaseOf(rcpt.full, msgTo)
  /\ pc = "resplit" =>
       /\ again.local = rcpt.local
       /\ again.domain = rcpt.domain
       /\ again.full = rcpt.full

C18_Witness ==
  /\ pc = "resplit"
  /\ msgTo = <<" ", "A", "@", "a">>
  /\ again = [local |-> <<"a">>, domain |-> <<"a">>, full |-> <<"a", "@", "a">>]

\* positions of '@' in the normalized recipient
AtSigns == {i \in 1..Len(norm(msgTo)) : norm(msgTo)[i] = "@"}

\* the normalized recipient has no '@', or nothing before its last '@'
InvalidForm == AtSigns = {} \/ \A i \in AtSigns : i = 1

\* C19: rcpt is the normalized recipient split at its last '@' (the domain
\* holds no '@'); a recipient without '@' or with an empty local part gets
\* local = "" and domain = "" with full preserved, and is rejected as an
\* invalid recipient without any alias lookup or forward.
C19_SplitAtLastAt ==
  pc \notin {"idle", "meta", "threw"} =>
    /\ rcpt.full = norm(msgTo)
    /\ IF InvalidForm
       THEN /\ rcpt.local = <<>>
            /\ rcpt.domain = <<>>
            /\ lookups = <<>>
            /\ forwards = <<>>
            /\ events # <<>> => Decision.route = "invalid-domain" /\ Decision.result = "rejected"
            /\ (pc = "done" /\ caught = <<>>) => rejects = <<[arg |-> RejInvalid, ok |-> TRUE]>>
       ELSE /\ rcpt.local # <<>>
            /\ rcpt.local \o <<"@">> \o rcpt.domain = rcpt.full
            /\ \A i \in 1..Len(rcpt.domain) : rcpt.domain[i] # "@"

C19_Witness ==
  /\ pc = "done"
  /\ msgTo = AtDIo
  /\ envDOMAIN # <<>>
  /\ rcpt = [local |-> <<>>, domain |-> <<>>, full |-> AtDIo]
  /\ rejects = <<[arg |-> RejInvalid, ok |-> TRUE]>>

UpperChar(c) ==
  CASE c = "a" -> "A"
    [] c = "b" -> "B"
    [] c = "c" -> "C"
    [] c = "d" -> "D"
    [] c = "e" -> "E"
    [] c = "i" -> "I"
    [] c = "l" -> "L"
    [] c = "m" -> "M"
    [] c = "o" -> "O"
    [] c = "p" -> "P"
    [] c = "q" -> "Q"
    [] c = "x" -> "X"
    [] c = "y" -> "Y"
    [] c = "z" -> "Z"
    [] OTHER -> c

toUpperCase(s) == [i \in 1..Len(s) |-> UpperChar(s[i])]

\* strings that differ from s only in letter case or surrounding spaces
Variants(s) ==
  { s, toUpperCase(s), toLowerCase(s),
    <<" ">> \o s \o <<" ">>, <<" ">> \o toUpperCase(s), toLowerCase(s) \o <<" ">> }

\* C20: routing does not depend on letter case or surrounding spaces: the
\* decision the handler made for its recipient and configuration (route,
\* base, destination, result, reason) is the decision for every recipient
\* and every DOMAIN that differ from them only in case or padding, against
\* the same table; the reply names the same domain; and the loop guard gives
\* the same verdict for every case variant of a stored forward_to.  The
\* decision is compared when it has just been handed to the logger (it does
\* not change afterwards), the verdicts before the first message (the table
\* and DOMAIN do not change).
C20_CaseInsensitiveRouting ==
  /\ (Decided /\ Len(events) = 1 /\ writes = <<>>) =>
       \A t \in Variants(msgTo) : \A d \in Variants(envDOMAIN) :
         /\ decide(t, d, aliases, forwards = <<>> \/ forwards[1].ok) = Decision
         /\ getDomain(d) = domain
  /\ pc = "idle" =>
       \A r \in aliases : \A f \in Variants(r.forward_to) : \A d \in Variants(envDOMAIN) :
         wouldLoop(f, d) = InOwnDomain(r.forward_to)

C20_Witness ==
  /\ pc = "done"
  /\ msgTo = <<" ","A","@","D",".","I","O"," ">>
  /\ envDOMAIN = <<" ","D",".","I","O">>
  /\ \E r \in aliases : r.address = AddrA
  /\ entry.result = "forwarded"
  /\ entry = decide(AddrA, <<"d",".","i","o">>, aliases, TRUE)

\* C21: per message the handler performs three kinds of external I/O and no
\* more of each than stated: at most two alias lookups, at most one delivery
\* attempt, at most one log write; a handler that returned after its lookups
\* has made at least one lookup and exactly one log write.
C21_AtMostThreeIO ==
  /\ Len(lookups) <= 2
  /\ Len(forwards) <= 1
  /\ Len(writes) <= 1
  /\ (pc = "done" /\ ToOwnDomain) => Len(lookups) >= 1 /\ Len(writes) = 1

\* the entries of a message: the one being built, those handed to the
\* console and those handed to the durable log
EntriesOfMessage ==
  (IF entry = NoEntry THEN {} ELSE {entry})
    \cup {events[i].entry : i \in 1..Len(events)}
    \cup {writes[i].entry : i \in 1..Len(writes)}

\* C23: in every entry of a message the base address is present exactly when
\* the route is base+tag, and the destination is present exactly when the
\* route is exact or base+tag (both absent for none, invalid-domain and
\* exception).
C23_BaseAndDestByRoute ==
  \A e \in EntriesOfMessage :
    /\ e.route \in {"exact", "base+tag", "none", "invalid-domain", "exception"}
    /\ (e.base # <<>>) <=> (e.route = "base+tag")
    /\ (e.dest # <<>>) <=> (e.route \in {"exact", "base+tag"})

C23_Witness ==
  /\ pc = "done"
  /\ Len(writes) = 2
  /\ writes[1].entry.route = "base+tag"
  /\ writes[1].entry.base = AddrA
  /\ writes[1].entry.dest = DestZ
  /\ writes[2].entry.route = "exception"
  /\ writes[2].entry.base = <<>>
  /\ writes[2].entry.dest = <<>>

\* the alias lookups of invocation f returned normally
LookupsReturnedIn(f) ==
  \A i \in 1..Len(f.caught) : f.caught[i].src \notin {"meta", "lookupExact", "lookupBase"}

\* what invocation f logged, forwarded and replied is what the handler
\* decides for f's own message against the table, as when it runs alone
OutcomeAsAlone(f) ==
  LET d == decide(f.msgTo, envDOMAIN, aliases, f.forwards = <<>> \/ f.forwards[1].ok)
  IN  /\ f.pc \notin {"idle", "meta", "threw"} => f.rcpt = splitAddress(f.msgTo)
      /\ (f.events # <<>> /\ LookupsReturnedIn(f)) => f.events[1].entry = d
      /\ (f.writes # <<>> /\ LookupsReturnedIn(f) /\ f.events[1].ok) => f.writes[1].entry = d
      /\ \A i \in 1..Len(f.forwards) : f.forwards[i].dest = d.dest
      /\ \A i \in 1..Len(f.lookups) :
           f.lookups[i] \in {splitAddress(f.msgTo).full,
                             baseOf(splitAddress(f.msgTo), plusIdx(splitAddress(f.msgTo).local))}
      /\ (f.pc = "done" /\ f.caught = <<>>) =>
           /\ Len(f.writes) = 1
           /\ IF d.result = "forwarded"
              THEN f.forwards = <<[dest |-> d.dest, ok |-> TRUE]>> /\ f.rejects = <<>>
              ELSE /\ Len(f.rejects) = 1
                   /\ f.rejects[1].ok
                   /\ f.rejects[1].arg.text = ReasonFor(d)
                   /\ \A i \in 1..Len(f.forwards) : ~f.forwards[i].ok

IsPrefix(s, t) == Len(s) <= Len(t) /\ SubSeq(t, 1, Len(s)) = s

\* a step is taken by the running invocation and leaves the suspended one
\* as it was, or hands control over and changes neither; the table and the
\* configuration are only read; an invocation only appends to its log writes
NoSharedState ==
  /\ aliases' = aliases
  /\ envDOMAIN' = envDOMAIN
  /\ \/ parked' = parked /\ (pc' # "meta" => IsPrefix(writes, writes'))
     \/ parked' = frame /\ frame' = parked

\* C22: with a fixed table, two invocations whose steps interleave in any
\* way are independent: each one's lookups, forward, log entries and reply
\* are those the handler produces for that message alone, and no step of one
\* changes anything of the other; they share only the table and the
\* configuration, which they read, and the log, to which they append.
C22_ConcurrentMessagesIndependent ==
  /\ [](OutcomeAsAlone(frame) /\ OutcomeAsAlone(parked))
  /\ [][NoSharedState]_vars

C22_Witness ==
  /\ pc = "setReject"
  /\ blk = "invalid"
  /\ msgTo = <<"a">> \o AtOIo
  /\ Len(writes) = 1
  /\ parked.pc = "forwardBase"
  /\ parked.msgTo = <<"a","+","c">> \o AtDIo
  /\ parked.lookups = <<parked.msgTo, AddrA>>

\* ---------------------------------------------------------------------------
\* Vocabulary of the properties of the API worker
\* ---------------------------------------------------------------------------

\* the request carries the credentials the configuration asks for
Authorized(r) == apiKey = <<>> \/ r.auth = Bearer \o apiKey

\* invocation i has returned its response
Sent(i) == reqs[i].pc = "sent"

\* invocation i is a POST /aliases that passed validation; its address
Creates(i) == reqs[i].req.method = "POST" /\ reqs[i].stmt.sql = "INSERT"

\* a step in which invocation i executes its statement at position p
Executes(i, p) == reqs[i].pc = p /\ reqs'[i].pc # p

\* rows whose address equals addr up to case and surrounding spaces
RowsAt(addr) == {x \in aliases : SameAddress(x.address, trim(addr))}

UniqueAddresses ==
  \A x, y \in aliases : SameAddress(x.address, y.address) => x = y

\* a create whose address exists, in whatever letter case, answers 409 and
\* leaves the table alone
CreateOfExisting ==
  \A i \in DOMAIN reqs :
    (Executes(i, "insert") /\ RowsAt(the(reqs[i].req.body.address)) # {}) =>
      /\ reqs'[i].resp.status = 409
      /\ aliases' = aliases

\* a create of an address that does not exist, whose INSERT the store
\* executes, is answered 200 and adds one row with that address
CreateOfFree ==
  \A i \in DOMAIN reqs :
    (Executes(i, "insert") /\ ~reqs'[i].threw /\ RowsAt(reqs[i].stmt.key) = {}) =>
      /\ reqs'[i].resp.status = 200
      /\ \E x \in aliases' : aliases' = aliases \cup {x} /\ x.address = reqs[i].stmt.key

\* two creates of one address, the only requests so far, whether one after
\* the other or at the same time, whose INSERTs the store executed: one is
\* answered 200 and the other 409, or the address existed before and both
\* are answered 409
ConcurrentCreates ==
  \A i, j \in DOMAIN reqs :
    (/\ Sent(i) /\ Sent(j) /\ Creates(i) /\ Creates(j)
     /\ reqs[i].at = 1 /\ reqs[j].at = 2
     /\ reqs[i].stmt.key = reqs[j].stmt.key
     /\ ~reqs[i].threw /\ ~reqs[j].threw) =>
      LET won == {k \in {i, j} : reqs[k].resp.status = 200}
      IN  /\ \A k \in {i, j} : reqs[k].resp.status \in {200, 409}
          /\ Cardinality(won) <= 1
          /\ won = {} => \E x \in RowsAt(reqs[i].stmt.key) : x.created_at = 0
          /\ Cardinality(RowsAt(reqs[i].stmt.key)) = 1
          /\ won # {} =>
               \E x \in RowsAt(reqs[i].stmt.key) :
                 x.forward_to = the(reqs[the(won)].stmt.values.forward_to)

\* C24: whatever create, update and delete requests were handled, one after
\* another or interleaved, no two rows of aliases have the same address up to
\* letter case; a create of an address that exists in any letter case is
\* answered 409 and changes nothing; of two concurrent creates of one
\* address exactly one is answered 200.
C24_AddressesStayUnique ==
  /\ [](UniqueAddresses /\ ConcurrentCreates)
  /\ [][CreateOfExisting /\ CreateOfFree]_vars

C24_Witness ==
  /\ Sent(1) /\ Sent(2) /\ Creates(1) /\ Creates(2)
  /\ reqs[1].req.body.address = {AddrA}
  /\ reqs[2].req.body.address = {<<" ","A","@","D",".","I","O"," ">>}
  /\ reqs[1].at = 2 /\ reqs[2].at = 1
  /\ reqs[1].resp.status = 200
  /\ reqs[2].resp.status = 409
  /\ ~reqs[2].threw
  /\ \E x \in aliases : x.address = AddrA /\ x.forward_to = DestY

\* what the API worker does with the credentials of the request of
\* invocation i
AuthOutcome(i) ==
  LET r     == reqs[i].req
      given == apiKey = <<>> \/ r.auth = Bearer \o apiKey
  IN  /\ r.method = "OPTIONS" =>
           Sent(i) /\ reqs[i].resp.status = 200 /\ reqs[i].stmt = NoStmt
      /\ (r.method # "OPTIONS" /\ ~given) =>
           /\ Sent(i)
           /\ reqs[i].resp = Response(401, "Unauthorized", {})
           /\ reqs[i].stmt = NoStmt
      /\ (r.method # "OPTIONS" /\ given) =>
           /\ reqs[i].resp.status # 401
           /\ (r.method = "GET" /\ r.path = "aliases") => reqs[i].stmt.sql = "SELECT"
           /\ (r.method = "DELETE" /\ r.path = "alias" /\ r.seg # <<>>) =>
                reqs[i].stmt.sql = "DELETE"

\* C25: with MAILHOP_API_KEY set, a request other than OPTIONS whose
\* Authorization header is not exactly "Bearer <key>" is answered 401 before
\* any statement is prepared, and the step that receives a request never
\* changes the table; without a key every request is served; OPTIONS is
\* answered 200 whatever the header.
C25_UnauthorizedNeverReachesStore ==
  /\ [](\A i \in DOMAIN reqs : reqs[i].pc # "free" => AuthOutcome(i))
  /\ [][nReqs' # nReqs => aliases' = aliases /\ nextId' = nextId]_vars

C25_Witness ==
  /\ apiKey = <<"k">>
  /\ aliases # {}
  /\ reqs[1].req.method = "DELETE"
  /\ reqs[1].req.seg = AddrAB
  /\ reqs[1].req.auth = Bearer \o <<"x">>
  /\ reqs[1].resp.status = 401
  /\ nReqs = 3

CapitalLetters == {"A", "B", "C", "D", "E", "I", "L", "M", "O", "P", "Q", "X", "Y", "Z"}

\* s has no capital letter and no space at either end
Canonical(s) ==
  /\ \A k \in 1..Len(s) : s[k] \notin CapitalLetters
  /\ s # <<>> => s[1] # " " /\ s[Len(s)] # " "

\* the address the handlers of /aliases/:address bind for path segment v
KeysFor(v) ==
  { getAlias(Req("GET", "alias", v, {}, <<>>, NoBody)).stmt.key,
    deleteAlias(Req("DELETE", "alias", v, {}, <<>>, NoBody)).stmt.key,
    updateAlias(Req("PATCH", "alias", v, {}, <<>>,
                    Body("object", {}, {}, {}, {"0"}))).stmt.key }

\* C26: every address and forward_to the API binds for INSERT or UPDATE, and
\* so every one stored, is trimmed and in lower case; a path address in any
\* letter case or padding selects the one row stored for it, and a GET with
\* it is answered with that row.
C26_StoredLowercase ==
  /\ \A x \in aliases : Canonical(x.address) /\ Canonical(x.forward_to)
  /\ \A i \in DOMAIN reqs :
       /\ \A a \in reqs[i].stmt.values.address \cup reqs[i].stmt.values.forward_to :
            Canonical(a)
       /\ Canonical(reqs[i].stmt.key)
  /\ \A x \in aliases : \A v \in Variants(x.address) : \A k \in KeysFor(v) :
       whereAddress(aliases, k) = {x} /\ first(aliases, k) = {x}
  /\ \A i \in DOMAIN reqs :
       (Sent(i) /\ reqs[i].stmt.sql = "SELECT" /\ reqs[i].req.path = "alias" /\ ~reqs[i].threw) =>
         /\ reqs[i].resp.rows = RowsAt(reqs[i].req.seg)
         /\ reqs[i].resp.status = (IF RowsAt(reqs[i].req.seg) = {} THEN 404 ELSE 200)

C26_Witness ==
  /\ Sent(1)
  /\ reqs[1].req.method = "POST"
  /\ reqs[1].req.body.address = {<<" ","A","@","D",".","I","O"," ">>}
  /\ reqs[1].req.body.forward_to = {<<" ","Z","@","O",".","I","O">>}
  /\ reqs[1].resp.status = 200
  /\ \E x \in aliases : x.address = AddrA /\ x.forward_to = DestZ

\* C27: allow_plus of every row, and every allow_plus bound for INSERT or
\* UPDATE, is 0 or 1; a create that omits allow_plus stores 1 and answers
\* with 1, and the email worker accepts tags for that alias.
C27_AllowPlusZeroOrOne ==
  /\ \A x \in aliases : x.allow_plus \in {0, 1}
  /\ \A i \in DOMAIN reqs : reqs[i].stmt.values.allow_plus \subseteq {0, 1}
  /\ \A i \in DOMAIN reqs :
       (Sent(i) /\ Creates(i) /\ reqs[i].resp.status = 200
          /\ reqs[i].req.body.allow_plus = {}) =>
         /\ \A a \in reqs[i].resp.rows : a.allow_plus = 1
         /\ \E x \in aliases :
              /\ RowsAt(reqs[i].stmt.key) = {x}
              /\ x.allow_plus = 1
              /\ allowPlus({x})

C27_Witness ==
  /\ Sent(1)
  /\ Creates(1)
  /\ reqs[1].req.body.allow_plus = {}
  /\ reqs[1].resp.status = 200
  /\ \E x \in aliases : x.address = AddrA /\ x.allow_plus = 1 /\ x.id = nextId - 1

\* the member is missing or holds nothing but spaces
Missing(o) == o = {} \/ \A k \in 1..Len(the(o)) : the(o)[k] = " "

\* the member is given and holds no '@'
LacksAt(o) == o # {} /\ \A k \in 1..Len(the(o)) : the(o)[k] # "@"

\* invocation i answered with status and prepared no statement
Refused(i, status) ==
  Sent(i) /\ reqs[i].resp.status = status /\ reqs[i].resp.rows = {} /\ reqs[i].stmt = NoStmt

\* the requests the API refuses for what they carry
InvalidRefused(i) ==
  LET r == reqs[i].req
      b == r.body
  IN  (reqs[i].pc # "free" /\ Authorized(r)) =>
        /\ (r.method = "POST" /\ r.path = "aliases") =>
             /\ b.json = "bad" => Refused(i, 400)
             /\ (b.json = "object" /\ (Missing(b.address) \/ Missing(b.forward_to)
                                        \/ LacksAt(b.address) \/ LacksAt(b.forward_to))) =>
                  Refused(i, 400)
        /\ (r.method = "PATCH" /\ r.path = "alias" /\ ~Missing({r.seg})) =>
             /\ b.json = "bad" => Refused(i, 400)
             /\ (b.json = "object" /\ LacksAt(b.forward_to)) => Refused(i, 400)
             /\ (b.json = "object" /\ b.forward_to = {} /\ b.notes = {} /\ b.allow_plus = {}) =>
                  Refused(i, 400)

\* PATCH and DELETE of an address without alias answer 404, and no step that
\* answers 400, 401, 404 or 409 changes the table
ErrorsChangeNothing ==
  \A i \in DOMAIN reqs :
    /\ ((Executes(i, "update") \/ Executes(i, "delete"))
          /\ RowsAt(reqs[i].req.seg) = {} /\ ~reqs'[i].threw) =>
         reqs'[i].pc = "sent" /\ reqs'[i].resp.status = 404
    /\ (reqs'[i] # reqs[i] /\ reqs'[i].pc = "sent"
          /\ reqs'[i].resp.status \in {400, 401, 404, 409}) =>
         aliases' = aliases /\ nextId' = nextId

\* C28: the error outcomes of the API leave the table as it was: PATCH or
\* DELETE of an address without alias is answered 404; PATCH without an
\* updatable field, PATCH with a forward_to without '@', a create with a
\* missing or '@'-less address or forward_to, and an unparsable body are
\* answered 400 before any statement is prepared.
C28_ErrorsLeaveTableUnchanged ==
  /\ [](\A i \in DOMAIN reqs : InvalidRefused(i))
  /\ [][ErrorsChangeNothing]_vars

C28_Witness ==
  /\ Sent(1)
  /\ reqs[1].req.method = "PATCH"
  /\ reqs[1].req.seg = AddrAUp
  /\ reqs[1].req.body.allow_plus = {"0"}
  /\ reqs[1].resp.status = 404
  /\ ~reqs[1].threw
  /\ \A x \in aliases : x.address = AddrAB /\ x.allow_plus = 1
  /\ aliases # {}

\* row y is row x with the members supplied in body b, and nothing else, set
PatchedFrom(x, y, b) ==
  /\ y.id = x.id
  /\ y.address = x.address
  /\ y.created_at = x.created_at
  /\ y.forward_to = (IF b.forward_to = {} THEN x.forward_to
                     ELSE toLowerCase(trim(the(b.forward_to))))
  /\ y.notes = (IF b.notes = {} THEN x.notes ELSE the(b.notes))
  /\ y.allow_plus = (IF b.allow_plus = {} THEN x.allow_plus
                     ELSE IF the(b.allow_plus) \in {"0", "false"} THEN 0 ELSE 1)

\* the UPDATE of a PATCH replaces the one row of its address by its patched
\* version; the other steps of a PATCH leave the table alone, and the answer
\* carries the row as stored
PatchFrame ==
  \A i \in DOMAIN reqs :
    /\ (Executes(i, "update") /\ reqs'[i].pc = "reselect") =>
         \E x \in RowsAt(reqs[i].req.seg) : \E y \in aliases' :
           /\ aliases' = (aliases \ {x}) \cup {y}
           /\ aliases' \ {y} = aliases \ {x}
           /\ PatchedFrom(x, y, reqs[i].req.body)
    /\ (reqs[i].req.method = "PATCH" /\ reqs'[i] # reqs[i] /\ ~Executes(i, "update")) =>
         aliases' = aliases
    /\ (Executes(i, "reselect") /\ ~reqs'[i].threw) =>
         /\ reqs'[i].resp.status = 200
         /\ reqs'[i].resp.rows = RowsAt(reqs[i].req.seg)

\* C29: a successful PATCH /aliases/:address changes, in the one row of that
\* address, the members supplied among forward_to, notes and allow_plus; the
\* row's id, address and created_at, its members not supplied, and every
\* other row stay as they were.
C29_PatchChangesSuppliedFieldsOnly ==
  [][PatchFrame]_vars

C29_Witness ==
  /\ Sent(1)
  /\ reqs[1].req.method = "PATCH"
  /\ reqs[1].req.seg = AddrAUp
  /\ reqs[1].req.body.forward_to = {}
  /\ reqs[1].req.body.notes = {}
  /\ reqs[1].req.body.allow_plus = {"0"}
  /\ reqs[1].resp.status = 200
  /\ \E x \in aliases :
       /\ x.address = AddrA /\ x.allow_plus = 0 /\ x.forward_to = DestZ
       /\ x.notes = "n" /\ x.id = 2 /\ x.created_at = 1
       /\ reqs[1].resp.rows = {x}
  /\ \E x \in aliases : x.address = AddrAB /\ x.allow_plus = 1 /\ x.id = 1

\* rows of table t whose address equals addr up to case and surrounding spaces
RowsOf(t, addr) == {x \in t : SameAddress(x.address, trim(addr))}

\* GET /aliases/:address answers from the table as it is: 200 with the row
\* of the address, 404 when there is none
GetAnswers ==
  \A i \in DOMAIN reqs :
    (Executes(i, "select") /\ ~reqs'[i].threw) =>
      /\ reqs'[i].resp.rows = RowsAt(reqs[i].req.seg)
      /\ reqs'[i].resp.status = (IF RowsAt(reqs[i].req.seg) = {} THEN 404 ELSE 200)
      /\ aliases' = aliases

\* once a create is answered 200, every spelling of its address has exactly
\* the row with the forward_to and allow_plus of the request
AfterCreate ==
  \A i \in DOMAIN reqs :
    (Executes(i, "insert") /\ reqs'[i].resp.status = 200) =>
      LET b == reqs[i].req.body
      IN  \A v \in Variants(the(b.address)) :
            \E x \in aliases' :
              /\ RowsOf(aliases', v) = {x}
              /\ x.forward_to = toLowerCase(trim(the(b.forward_to)))
              /\ x.allow_plus = (IF b.allow_plus = {} THEN 1
                                 ELSE IF the(b.allow_plus) \in {"0", "false"} THEN 0 ELSE 1)
              /\ x.id = nextId

\* once a delete is answered 200, no spelling of its address has a row, and
\* the email worker, which routed such a recipient through the exact alias,
\* does so no longer
AfterDelete ==
  \A i \in DOMAIN reqs :
    (Executes(i, "delete") /\ reqs'[i].resp.status = 200) =>
      \A v \in Variants(reqs[i].req.seg) :
        /\ RowsOf(aliases', v) = {}
        /\ RowsOf(aliases, v) # {}
        /\ decide(v, envDOMAIN, aliases, TRUE).route = "exact"
        /\ decide(v, envDOMAIN, aliases', TRUE).route \in {"none", "base+tag"}
        /\ decide(v, envDOMAIN, aliases', TRUE).base # toLowerCase(trim(v))

\* C30: after a POST /aliases answered 200, GET /aliases/:address with any
\* letter-case variant of the address answers 200 with the alias and its
\* stored forward_to and allow_plus; after a DELETE answered 200 the same
\* GET answers 404 and the email worker no longer routes through the alias.
C30_CreateGetDeleteRoundTrip ==
  /\ [][GetAnswers /\ AfterCreate /\ AfterDelete]_vars
  /\ [](\A i \in DOMAIN reqs :
          (Sent(i) /\ reqs[i].stmt.sql = "SELECT" /\ reqs[i].req.path = "alias"
             /\ ~reqs[i].threw /\ reqs[i].resp.status = 404) =>
            RowsAt(reqs[i].req.seg) = {})

C30_Witness ==
  /\ Sent(1)
  /\ reqs[1].req.method = "GET"
  /\ reqs[1].req.seg = AddrAUp
  /\ reqs[1].resp.status = 404
  /\ ~reqs[1].threw
  /\ nReqs = 3
  /\ nextId = 2
  /\ aliases = {}

\* ---------------------------------------------------------------------------
\* C31  GET /logs returns at most L rows, newest first (ts descending, then
\*      id descending), where L is limit when 1 <= limit <= 500, 500 when
\*      limit > 500, and 50 when limit is missing, not a number, or <= 0.
\*      limit is the integer the parameter starts with, as parseInt reads it.
\* ---------------------------------------------------------------------------

\* an optionally signed decimal integer in front of the text of the parameter
LeadingInteger(q) ==
  LET t == IF q = {} THEN <<>> ELSE trimStart(the(q))
      u == IF t # <<>> /\ t[1] \in {"-", "+"} THEN Tail(t) ELSE t
      k == CHOOSE k \in 0..Len(u) :
             /\ \A j \in 1..k : isDigit(u[j])
             /\ (k < Len(u) => ~isDigit(u[k + 1]))
      v == valueOf(SubSeq(u, 1, k))
  IN  IF k = 0 THEN {}
      ELSE IF t[1] = "-" THEN {0 - v} ELSE {v}

\* L of the claim
LOf(q) ==
  LET n == LeadingInteger(q)
  IN  IF n = {} THEN 50
      ELSE IF the(n) <= 0 THEN 50
      ELSE IF the(n) > 500 THEN 500
      ELSE the(n)

\* slot i holds the answer of the store to a GET /logs
LogsAnswered(i) ==
  /\ reqs[i].pc = "sent"
  /\ Route(reqs[i].req) = "listEmailLogs"
  /\ reqs[i].resp.status = 200
  /\ reqs[i].req.method = "GET"
  /\ ~reqs[i].threw
  /\ checkAuth(reqs[i].req.auth, apiKey)

NewestFirst(rows) ==
  /\ \A k \in 1..Len(rows) : rows[k] \in email_logs
  /\ \A k \in 1..(Len(rows) - 1) :
        \/ rows[k].ts > rows[k + 1].ts
        \/ rows[k].ts = rows[k + 1].ts /\ rows[k].id > rows[k + 1].id
  /\ Len(rows) > 0 =>
        LET last == rows[Len(rows)]
        IN  Cardinality({x \in email_logs :
                           x.ts > last.ts \/ (x.ts = last.ts /\ x.id >= last.id)})
              = Len(rows)

C31_LogsLimitedNewestFirst ==
  \A i \in DOMAIN reqs :
    LogsAnswered(i) =>
      LET rows == reqs[i].resp.rows
          L    == LOf(reqs[i].req.query)
      IN  /\ Len(rows) <= L
          /\ Len(rows) = (IF Cardinality(email_logs) < L
                          THEN Cardinality(email_logs) ELSE L)
          /\ NewestFirst(rows)

\* a request with limit above 500 was answered with 500 of 501 rows, and the
\* oldest row was the one left out
C31_Witness ==
  \E i \in DOMAIN reqs :
    /\ LogsAnswered(i)
    /\ reqs[i].req.query = {<<"9","9","9","9">>}
    /\ Cardinality(email_logs) = 501
    /\ Len(reqs[i].resp.rows) = 500
    /\ \A k \in 1..500 : reqs[i].resp.rows[k].id # 3

\* ---------------------------------------------------------------------------
\* C32  The persistent log is capped: after every insert into email_logs the
\*      table holds at most 10000 rows, and the rows retained are those with
\*      the highest ids; whatever the number of messages, the log never
\*      exceeds the cap.
\* ---------------------------------------------------------------------------

\* an INSERT into email_logs was executed in this step
LogInserted == logSeq' # logSeq

HighestIdsRetained ==
  LogInserted =>
    LET added == email_logs' \ email_logs
        gone  == email_logs \ email_logs'
    IN  /\ Cardinality(added) = 1
        /\ \A x \in added : \A y \in email_logs : x.id > y.id
        /\ \A y \in gone : \A x \in email_logs' : y.id < x.id
        /\ Cardinality(email_logs') =
             (IF Cardinality(email_logs) < 10000 THEN Cardinality(email_logs) + 1
              ELSE 10000)

C32_LogCapped ==
  /\ [](Cardinality(email_logs) <= 10000)
  /\ [][HighestIdsRetained]_vars

\* two rows were inserted into a full table: the table is full, and the rows
\* with ids 1 and 2 are the ones that are gone
C32_Witness ==
  /\ logSeq = 10002
  /\ Cardinality(email_logs) = 10000
  /\ \A x \in email_logs : x.id > 2

\* ---------------------------------------------------------------------------
\* C33  The worker domain is never empty: it is env.DOMAIN trimmed and in
\*      lower case, or "example.com" when DOMAIN is unset or blank, and within
\*      one message the recipient-domain check and the loop guard use the
\*      same value.
\* ---------------------------------------------------------------------------

Blank(t) == \A i \in 1..Len(t) : t[i] = " "

\* const domain of the running invocation has its value
DomainRead == pc \notin {"idle", "meta", "threw"}

DomainAsConfigured ==
  DomainRead =>
    /\ domain # <<>>
    /\ IF Blank(envDOMAIN)
       THEN domain = <<"e","x","a","m","p","l","e",".","c","o","m">>
       ELSE IsTrimmedLowerCaseOf(domain, envDOMAIN)

\* the part of an address after its last "@", trimmed and in lower case
DomainPart(addr) ==
  LET a == trim(toLowerCase(addr))
  IN  IF \E i \in 2..Len(a) : a[i] = "@"
      THEN LET k == CHOOSE k \in 2..Len(a) : a[k] = "@" /\ \A j \in (k + 1)..Len(a) : a[j] # "@"
           IN  SubSeq(a, k + 1, Len(a))
      ELSE <<>>

\* the recipient-domain check decided with const domain
RecipientCheckedAgainstDomain ==
  Decided =>
    (Decision.route = "invalid-domain"
       <=> (DomainPart(msgTo) # domain \/ NormTo.local = <<>>))

\* the loop guard decided with the same value
LoopGuardedAgainstDomain ==
  /\ \A i \in 1..Len(forwards) : DomainPart(forwards[i].dest) # domain
  /\ Decided /\ Decision.error = LoopError => DomainPart(Decision.dest) = domain
  /\ Decided /\ Decision.route \in {"exact", "base+tag"} /\ Decision.error # LoopError
       => DomainPart(Decision.dest) # domain

C33_DomainNeverEmptyAndShared ==
  /\ DomainAsConfigured
  /\ RecipientCheckedAgainstDomain
  /\ LoopGuardedAgainstDomain

\* DOMAIN is blank: a recipient at example.com passed the domain check and
\* its alias, which forwards into example.com, was rejected as a loop
C33_Witness ==
  /\ envDOMAIN = <<" ">>
  /\ pc = "done"
  /\ caught = <<>>
  /\ domain = <<"e","x","a","m","p","l","e",".","c","o","m">>
  /\ Decision.route = "exact"
  /\ Decision.error = LoopError
  /\ rejects = <<[arg |-> RejLoop, ok |-> TRUE]>>

\* ---------------------------------------------------------------------------
\* C34  mailhop create <alias> <forward-to> [notes] [--no-plus] sends
\*      allow_plus=false whenever --no-plus is given on the command line,
\*      with or without a notes argument, and allow_plus=true otherwise;
\*      --no-plus is never stored as the alias's notes.
\* ---------------------------------------------------------------------------

\* the command line names an alias and a destination before anything else
CreateCommand ==
  /\ Len(argv) >= 2
  /\ argv[1] = AddrA
  /\ argv[2] = DestZ

NoPlusGiven == \E k \in 1..Len(argv) : argv[k] = NoPlusFlag

C34_NoPlusFlagHonoured ==
  CreateCommand /\ cli # "start" =>
    /\ reqs[1].req.body.allow_plus = {IF NoPlusGiven THEN "false" ELSE "true"}
    /\ reqs[1].req.body.notes # {"--no-plus"}
    /\ \A x \in aliases :
         /\ x.notes # "--no-plus"
         /\ x.allow_plus = (IF NoPlusGiven THEN 0 ELSE 1)

\* ---------------------------------------------------------------------------
\* C35  When an exact alias exists for the recipient, the plus-tag base alias
\*      is never consulted, even if the exact alias is rejected as a routing
\*      loop or its delivery fails: the message ends rejected with no second
\*      alias lookup and no second forward attempt.
\* ---------------------------------------------------------------------------

\* the recipient is of the worker domain and the table holds its exact alias
ExactAliasExists == InFlight /\ ToOwnDomain /\ ExactAliases # {}

\* the exact alias forwards into the worker domain
ExactLoops == \E r \in ExactAliases : InOwnDomain(r.forward_to)

\* the delivery to the exact alias was attempted and failed
ExactDeliveryFailed == forwards # <<>> /\ ~forwards[1].ok

\* nothing failed but, possibly, the one delivery
OnlyDeliveryFailed == \A i \in 1..Len(caught) : caught[i].src = "forwardExact"

C35_ExactNeverFallsBackToBase ==
  ExactAliasExists =>
    /\ Len(lookups) <= 1
    /\ \A i \in 1..Len(lookups) : lookups[i] = NormTo.full
    /\ Len(forwards) <= 1
    /\ \A i \in 1..Len(forwards) : \E r \in ExactAliases : forwards[i].dest = r.forward_to
    /\ baseRow = {}
    /\ pc = "done" /\ OnlyDeliveryFailed /\ (ExactLoops \/ ExactDeliveryFailed) =>
         /\ OkForwards = {}
         /\ Len(rejects) = 1
         /\ rejects[1].ok
         /\ rejects[1].arg = (IF ExactLoops THEN RejLoop ELSE RejNotVerified)
         /\ Decision.route = "exact"

\* a+b@d.io has an exact alias whose delivery failed, while its base a@d.io
\* is an alias that allows plus addressing: rejected after one lookup
C35_Witness ==
  /\ ExactAliasExists
  /\ HasPlus
  /\ \E r \in aliases : SameAddress(r.address, EarliestBase) /\ r.allow_plus = 1
                          /\ ~InOwnDomain(r.forward_to)
  /\ ExactDeliveryFailed
  /\ pc = "done"
  /\ Len(lookups) = 1
  /\ rejects = <<[arg |-> RejNotVerified, ok |-> TRUE]>>

\* ---------------------------------------------------------------------------
\* C36  An exact alias match is forwarded regardless of that alias's
\*      allow_plus value, including when the recipient address itself
\*      contains "+": allow_plus only gates matching through the base alias.
\* ---------------------------------------------------------------------------

\* the SELECT for the full address has returned
ExactLookupReturned ==
  /\ pc \notin {"idle", "meta", "check", "lookupExact", "threw"}
  /\ \A i \in 1..Len(caught) : caught[i].src \notin {"meta", "lookupExact"}

C36_ExactMatchIgnoresAllowPlus ==
  /\ ExactAliasExists /\ ~ExactLoops /\ ExactLookupReturned =>
       /\ pc = "forwardExact" \/ Len(forwards) = 1
       /\ \A i \in 1..Len(forwards) :
            \E r \in ExactAliases : forwards[i].dest = r.forward_to
       /\ Decided =>
            /\ Decision.route = "exact"
            /\ Decision.result = (IF forwards[1].ok THEN "forwarded" ELSE "error")
  /\ InFlight /\ ToOwnDomain /\ ExactAliases = {} =>
       \A i \in 1..Len(forwards) :
         \E r \in PlusAliases : r.allow_plus = 1 /\ forwards[i].dest = r.forward_to

\* a+b@d.io is itself an alias with allow_plus = 0 and was forwarded to its
\* destination
C36_Witness ==
  /\ ExactAliasExists
  /\ HasPlus
  /\ \A r \in ExactAliases : r.allow_plus = 0
  /\ pc = "done"
  /\ caught = <<>>
  /\ Len(forwards) = 1
  /\ forwards[1].ok
  /\ Decision.result = "forwarded"
  /\ rejects = <<>>

\* ---------------------------------------------------------------------------
\* C37  The audit log agrees with the transport action: an entry with result
\*      "forwarded" is written only after forward(dest) returned successfully
\*      with the same dest as the entry's dest_addr, and no message has both a
\*      "forwarded" entry and a reject; an entry with result "rejected" or
\*      "error" is written before the corresponding reject is issued.
\*      Written: handed to persistLog, whose INSERT is best-effort.
\* ---------------------------------------------------------------------------

\* persistLog is called in this step
EntryWritten == Len(writes') = Len(writes) + 1

\* setReject is called in this step
RejectIssued == Len(rejects') = Len(rejects) + 1

ForwardedWrittenAfterForward ==
  EntryWritten /\ writes'[Len(writes')].entry.result = "forwarded" =>
    /\ Len(forwards) = 1
    /\ forwards[1].ok
    /\ forwards[1].dest = writes'[Len(writes')].entry.dest
    /\ rejects = <<>>

RejectAfterItsEntry ==
  RejectIssued =>
    /\ writes # <<>>
    /\ writes[Len(writes)].entry.result \in {"rejected", "error"}
    /\ rejects'[Len(rejects')].arg.text = ReasonFor(writes[Len(writes)].entry)
    /\ Len(writes) = Len(rejects')

NeverForwardedAndRejected ==
  \A i \in 1..Len(writes) : writes[i].entry.result = "forwarded" => rejects = <<>>

C37_LogAgreesWithTransport ==
  /\ []NeverForwardedAndRejected
  /\ [][ForwardedWrittenAfterForward /\ RejectAfterItsEntry]_vars

\* a plus-addressed message was delivered to the base alias's destination and
\* its one entry, written after the forward, says so
C37_Witness ==
  /\ pc = "done"
  /\ forwards # <<>>
  /\ forwards[1].ok
  /\ Len(writes) = 1
  /\ writes[1].entry.result = "forwarded"
  /\ writes[1].entry.route = "base+tag"
  /\ writes[1].entry.dest = forwards[1].dest
  /\ rejects = <<>>
====
